---- MODULE Spec2Model ----
(***************************************************************************)
(* A model of the ETL_V3 batch pipeline: csv_importer.py (intake),         *)
(* raw_to_stg.py (reconciliation) and run_pipeline.py (the runner), over   *)
(* an abstract SQLite store.  File names, table names and column names     *)
(* are tuples of one-character strings so that the string transforms of    *)
(* the code (splitext, the date regex, split/capitalize, lower, strip,     *)
(* startswith) are computed as the code computes them.  Cell values are    *)
(* strings; NULL is the cell pandas reads as NaN and SQLite stores as      *)
(* NULL.  Time is an integer number of seconds.                            *)
(***************************************************************************)
EXTENDS Bags, FiniteSets, Integers, Sequences, TLC

(***************************************************************************)
(* Characters and Python string methods                                    *)
(***************************************************************************)
Uppers == <<"A","B","C","D","E","F","G","H","I","J","K","L","M",
            "N","O","P","Q","R","S","T","U","V","W","X","Y","Z">>

Lowers == <<"a","b","c","d","e","f","g","h","i","j","k","l","m",
            "n","o","p","q","r","s","t","u","v","w","x","y","z">>

Digits == <<"0","1","2","3","4","5","6","7","8","9">>

\* the characters of the model in code-point order (sorted(), ORDER BY name)
Ascii == <<" ", "\"", ".">> \o Digits \o Uppers \o <<"_">> \o Lowers

\* the code point order of a character
OrdOf == [c \in {Ascii[i] : i \in 1..Len(Ascii)} |-> CHOOSE i \in 1..Len(Ascii) : Ascii[i] = c]

Ord(c) == OrdOf[c]

IsDigit(c) == \E i \in 1..Len(Digits) : Digits[i] = c

\* the lower-case letter of every upper-case letter, and the converse
ToLower ==
    [c \in {Uppers[i] : i \in 1..Len(Uppers)} |->
        Lowers[CHOOSE i \in 1..Len(Uppers) : Uppers[i] = c]]

ToUpper ==
    [c \in {Lowers[i] : i \in 1..Len(Lowers)} |->
        Uppers[CHOOSE i \in 1..Len(Lowers) : Lowers[i] = c]]

LowerCh(c) == IF c \in DOMAIN ToLower THEN ToLower[c] ELSE c

UpperCh(c) == IF c \in DOMAIN ToUpper THEN ToUpper[c] ELSE c

\* str.lower()
Lower(s) == [i \in 1..Len(s) |-> LowerCh(s[i])]

\* str.capitalize(): first character upper-cased, the rest lower-cased
Capitalize(w) ==
    IF w = <<>> THEN <<>> ELSE <<UpperCh(w[1])>> \o Lower(Tail(w))

\* str.startswith(p)
StartsWith(s, p) == Len(s) >= Len(p) /\ SubSeq(s, 1, Len(p)) = p

\* str.split(sep) for a one-character separator
RECURSIVE SplitFrom(_, _, _)
SplitFrom(s, sep, word) ==
    IF s = <<>> THEN <<word>>
    ELSE IF Head(s) = sep THEN <<word>> \o SplitFrom(Tail(s), sep, <<>>)
    ELSE SplitFrom(Tail(s), sep, Append(word, Head(s)))

Split(s, sep) == SplitFrom(s, sep, <<>>)

\* ''.join(words)
RECURSIVE Join(_)
Join(words) == IF words = <<>> THEN <<>> ELSE Head(words) \o Join(Tail(words))

\* str.strip(): leading and trailing blanks removed
RECURSIVE LStrip(_)
LStrip(s) == IF s # <<>> /\ Head(s) = " " THEN LStrip(Tail(s)) ELSE s

RECURSIVE RStrip(_)
RStrip(s) ==
    IF s # <<>> /\ s[Len(s)] = " " THEN RStrip(SubSeq(s, 1, Len(s) - 1)) ELSE s

Strip(s) == LStrip(RStrip(s))

\* str.replace(r'\s+', ' ', regex=True): every run of blanks becomes one blank
RECURSIVE CollapseWs(_)
CollapseWs(s) ==
    IF Len(s) < 2 THEN s
    ELSE IF s[1] = " " /\ s[2] = " " THEN CollapseWs(Tail(s))
    ELSE <<s[1]>> \o CollapseWs(Tail(s))

\* lexicographic order of strings by code point
RECURSIVE StrLess(_, _)
StrLess(a, b) ==
    IF b = <<>> THEN FALSE
    ELSE IF a = <<>> THEN TRUE
    ELSE IF Head(a) # Head(b) THEN Ord(Head(a)) < Ord(Head(b))
    ELSE StrLess(Tail(a), Tail(b))

\* sorted(names) for a set of distinct strings
RECURSIVE SortedNames(_)
SortedNames(S) ==
    IF S = {} THEN <<>>
    ELSE LET m == CHOOSE x \in S : \A y \in S \ {x} : StrLess(x, y)
         IN  <<m>> \o SortedNames(S \ {m})

\* the elements of a sequence
Range(s) == {s[i] : i \in 1..Len(s)}

(***************************************************************************)
(* File names                                                              *)
(***************************************************************************)
\* the absent date (parse_filename returns None for it)
NoDate == <<>>

\* os.path.splitext(filename)[0]: the name up to its last dot, leading dots
\* not counted as the start of an extension
SplitextRoot(filename) ==
    LET dots == {i \in 1..Len(filename) : filename[i] = "."}
        last == CHOOSE i \in dots : \A j \in dots : j <= i
    IN  IF dots = {} THEN filename
        ELSE IF \A j \in 1..(last - 1) : filename[j] = "." THEN filename
        ELSE SubSeq(filename, 1, last - 1)

\* parse_filename: <<base_name, date_str>>, the regex ^(.+)_(\d{8})$
parse_filename(filename) ==
    LET name == SplitextRoot(filename)
        n    == Len(name)
    IN  IF /\ n >= 10
           /\ name[n - 8] = "_"
           /\ \A i \in (n - 7)..n : IsDigit(name[i])
        THEN [base_name |-> SubSeq(name, 1, n - 9), date_str |-> SubSeq(name, n - 7, n)]
        ELSE [base_name |-> name, date_str |-> NoDate]

\* base_name_to_table_name: PascalCase of the underscore-separated words
base_name_to_table_name(base_name) ==
    LET words == Split(base_name, "_")
    IN  Join([i \in 1..Len(words) |-> Capitalize(words[i])])

(***************************************************************************)
(* The store: cells, intake (raw) tables, durable (stg) tables             *)
(***************************************************************************)
\* the SQL NULL (an empty CSV cell)
NULL == "NULL"

\* the metadata column names of the two scripts
COL_IMPORTED_AT == <<"_","i","m","p","o","r","t","e","d","_","a","t">>

COL_SOURCE_FILE == <<"_","s","o","u","r","c","e","_","f","i","l","e">>

COL_FILE_DATE == <<"_","f","i","l","e","_","d","a","t","e">>

COL_STG_LOADED_AT == <<"_","s","t","g","_","l","o","a","d","e","d","_","a","t">>

COL_STG_SOURCE_TABLE ==
    <<"_","s","t","g","_","s","o","u","r","c","e","_","t","a","b","l","e">>

\* A raw table is [cols, has_file_date, rows]: cols are the columns the first
\* batch's DataFrame had before the metadata columns were added; a row is
\* [data, imported_at, source_file, file_date], data aligned with cols and
\* file_date = NoDate standing for a NULL _file_date.
\* PRAGMA table_info of a raw table: the column names in creation order
get_table_columns(t) ==
    t.cols \o <<COL_IMPORTED_AT, COL_SOURCE_FILE>>
           \o (IF t.has_file_date THEN <<COL_FILE_DATE>> ELSE <<>>)

\* table_exists: sqlite_master.name = ? (a case-sensitive comparison)
table_exists(db, table_name) == table_name \in DOMAIN db

\* SELECT COUNT(*) FROM [table]
get_row_count(t) == Len(t.rows)

IsMetaName(name) == StartsWith(name, <<"_">>)

NotMetaName(name) == ~IsMetaName(name)

(***************************************************************************)
(* csv_importer.py                                                         *)
(***************************************************************************)
\* compare_columns with the test on missing_in_csv left out of match
compare_columns_ExtraOnly(table_cols, csv_cols) ==
    LET table_all == {Lower(c) : c \in Range(table_cols)}
        csv_set   == {Lower(c) : c \in Range(csv_cols)}
        table_set == {c \in table_all : ~StartsWith(c, <<"_">>)}
        missing_in_csv == table_set \ csv_set
        extra_in_csv   == csv_set \ table_set
    IN  [match   |-> (extra_in_csv = {}),
         missing |-> missing_in_csv,
         extra   |-> extra_in_csv]

\* compare_columns(table_cols, csv_cols): [match, missing, extra]; the two
\* lists are built from sets, so they are modelled as sets
compare_columns(table_cols, csv_cols) ==
    LET table_all == {Lower(c) : c \in Range(table_cols)}
        csv_set   == {Lower(c) : c \in Range(csv_cols)}
        table_set == {c \in table_all : ~StartsWith(c, <<"_">>)}
        missing_in_csv == table_set \ csv_set
        extra_in_csv   == csv_set \ table_set
    IN  [match   |-> (missing_in_csv = {} /\ extra_in_csv = {}),
         missing |-> missing_in_csv,
         extra   |-> extra_in_csv]

\* A source file is [filename, header, rows, decodes, parses]: header is the
\* header line's fields as written, rows the data lines' cells, decodes the
\* set of encodings under which its bytes decode, parses whether pandas can
\* parse the decoded text.
\* the codecs Python has, among the names the configurations list
Codecs == {"utf-8", "latin-1", "cp1252"}

\* pd.read_csv(file_path, encoding=encoding): "ok", or the exception raised
ReadAttempt(file, encoding) ==
    IF encoding \notin Codecs THEN "LookupError"
    ELSE IF encoding \notin file.decodes THEN "UnicodeDecodeError"
    ELSE IF ~file.parses THEN "ParserError"
    ELSE "ok"

\* the encoding at which the loop over the encodings ends: the first whose
\* attempt does not raise a UnicodeError (that exception alone makes the
\* loop continue), "" when every attempt raises one
FirstEncoding(file, encodings) ==
    LET ends == {i \in 1..Len(encodings) :
                    ReadAttempt(file, encodings[i]) # "UnicodeDecodeError"}
    IN  IF ends = {} THEN ""
        ELSE encodings[CHOOSE i \in ends : \A j \in ends : i <= j]

\* read_csv_file: [ok, columns, rows, encoding]; with ok = FALSE the second
\* component of the Python tuple is an error message
read_csv_file(file, settings) ==
    LET enc  == FirstEncoding(file, settings.encoding_attempts)
        cols == IF settings.trim_whitespace
                THEN [i \in 1..Len(file.header) |-> CollapseWs(Strip(file.header[i]))]
                ELSE file.header
        AnyValue(r) == \E i \in 1..Len(r) : r[i] # NULL
        rows == IF settings.skip_empty_rows
                THEN SelectSeq(file.rows, AnyValue)
                ELSE file.rows
    IN  IF enc = "" \/ ReadAttempt(file, enc) # "ok"
        THEN [ok |-> FALSE, columns |-> <<>>, rows |-> <<>>, encoding |-> enc]
        ELSE [ok |-> TRUE, columns |-> cols, rows |-> rows, encoding |-> enc]

\* get_csv_columns: [ok, columns]; the names are stripped, unconditionally,
\* and their inner blanks are left as they are
get_csv_columns(file, settings) ==
    LET enc == FirstEncoding(file, settings.encoding_attempts)
    IN  IF enc = "" \/ ReadAttempt(file, enc) # "ok"
        THEN [ok |-> FALSE, columns |-> <<>>]
        ELSE [ok |-> TRUE,
              columns |-> [i \in 1..Len(file.header) |-> Strip(file.header[i])]]

\* DataFrame.to_sql(if_exists='append') raises when the frame has a column
\* the table lacks (SQLite matches column names case-insensitively); the
\* frame's columns are df_cols plus the metadata columns it was given
AppendFails(t, df_cols, date_str) ==
    LET have == {Lower(c) : c \in Range(get_table_columns(t))}
        want == {Lower(c) : c \in Range(df_cols)}
                  \cup {COL_IMPORTED_AT, COL_SOURCE_FILE}
                  \cup (IF date_str # NoDate THEN {COL_FILE_DATE} ELSE {})
    IN  ~(want \subseteq have)

\* the cells of one frame row in the table's column order; a table column
\* the frame does not have is NULL
AlignRow(t, df_cols, r) ==
    [j \in 1..Len(t.cols) |->
        IF \E i \in 1..Len(df_cols) : Lower(df_cols[i]) = Lower(t.cols[j])
        THEN r[CHOOSE i \in 1..Len(df_cols) : Lower(df_cols[i]) = Lower(t.cols[j])]
        ELSE NULL]

\* a writer that leaves out the frame rows whose cells the table holds
FrameRows_Fresh(t, df, filename, date_str, now) ==
    LET Fresh(r) == \A i \in 1..Len(t.rows) : t.rows[i].data # AlignRow(t, df.columns, r)
        rows     == SelectSeq(df.rows, Fresh)
    IN  [k \in 1..Len(rows) |->
            [data        |-> AlignRow(t, df.columns, rows[k]),
             imported_at |-> now,
             source_file |-> filename,
             file_date   |-> IF t.has_file_date THEN date_str ELSE NoDate]]

\* the rows to_sql writes for a frame: data cells plus the metadata cells
FrameRows(t, df, filename, date_str, now) ==
    [k \in 1..Len(df.rows) |->
        [data        |-> AlignRow(t, df.columns, df.rows[k]),
         imported_at |-> now,
         source_file |-> filename,
         file_date   |-> IF t.has_file_date THEN date_str ELSE NoDate]]

\* the table name of a source file: 'raw' + PascalCase(base name)
RawTableName(filename) ==
    <<"r","a","w">> \o base_name_to_table_name(parse_filename(filename).base_name)

\* import_single_csv(conn, file_path, configs, log_entries): the raw tables
\* after the call, the result dict and the log entries it appended
import_single_csv(rawdb, file, settings, now) ==
    LET parsed     == parse_filename(file.filename)
        base_name  == parsed.base_name
        date_str   == parsed.date_str
        table_name == RawTableName(file.filename)
        exists     == table_exists(rawdb, table_name)
        failed(tn, kind, cmp) ==
            [raw |-> rawdb,
             result |-> [filename |-> file.filename, success |-> FALSE,
                         table_name |-> tn, rows_imported |-> 0,
                         message |-> kind,
                         missing |-> cmp.missing, extra |-> cmp.extra],
             log |-> <<>>]
        nocmp      == [missing |-> {}, extra |-> {}]
        csv        == get_csv_columns(file, settings)
        cmp        == compare_columns(get_table_columns(rawdb[table_name]), csv.columns)
        df         == read_csv_file(file, settings)
        newtab     == [cols |-> df.columns, has_file_date |-> date_str # NoDate,
                       rows |-> <<>>]
        target     == IF exists THEN rawdb[table_name] ELSE newtab
        written    == [target EXCEPT
                         !.rows = @ \o FrameRows(target, df, file.filename, date_str, now)]
    IN  IF base_name = <<>> THEN failed(<<>>, "Invalid filename format", nocmp)
        ELSE IF exists /\ ~csv.ok THEN failed(table_name, "Error reading CSV", nocmp)
        ELSE IF exists /\ ~cmp.match THEN failed(table_name, "Column mismatch", cmp)
        ELSE IF ~df.ok THEN failed(table_name, "Error reading CSV", nocmp)
        ELSE IF exists /\ AppendFails(rawdb[table_name], df.columns, date_str)
             THEN failed(table_name, "to_sql error", nocmp)
        ELSE [raw |-> [n \in DOMAIN rawdb \cup {table_name} |->
                          IF n = table_name THEN written ELSE rawdb[n]],
              result |-> [filename |-> file.filename, success |-> TRUE,
                          table_name |-> table_name,
                          rows_imported |-> Len(df.rows),
                          message |-> "Success",
                          missing |-> {}, extra |-> {}],
              log |-> <<[operation |-> "csv_import", table_name |-> table_name,
                         rows_affected |-> Len(df.rows), status |-> "success",
                         message |-> file.filename,
                         started_at |-> now, completed_at |-> now]>>]

(***************************************************************************)
(* raw_to_stg.py                                                           *)
(***************************************************************************)
\* get_all_raw_tables: name LIKE 'raw%' (LIKE ignores case) AND name NOT
\* LIKE '_%' with the underscore escaped, ORDER BY name
get_all_raw_tables(rawdb) ==
    SortedNames({n \in DOMAIN rawdb :
                    /\ StartsWith(Lower(n), <<"r","a","w">>)
                    /\ ~StartsWith(n, <<"_">>)})

\* raw_to_stg_name: rawCustomerProfiles -> stgCustomerProfiles
raw_to_stg_name(raw_table_name) ==
    IF StartsWith(raw_table_name, <<"r","a","w">>)
    THEN <<"s","t","g">> \o SubSeq(raw_table_name, 4, Len(raw_table_name))
    ELSE <<"s","t","g">> \o raw_table_name

\* get_base_table_name: rawCustomerProfiles -> CustomerProfiles
get_base_table_name(raw_table_name) ==
    IF StartsWith(raw_table_name, <<"r","a","w">>)
    THEN SubSeq(raw_table_name, 4, Len(raw_table_name))
    ELSE raw_table_name

\* the names of a raw table's columns that do not start with an underscore
DataColumns(t) == SelectSeq(get_table_columns(t), NotMetaName)

\* the cells of a raw row under the given columns of its table
Project(t, columns, r) ==
    [j \in 1..Len(columns) |->
        r.data[CHOOSE i \in 1..Len(t.cols) : t.cols[i] = columns[j]]]

\* the f-string '"{name}" {dtype}' is not valid SQL when the name holds a
\* double quote: cursor.execute raises sqlite3.OperationalError
QuotingBreaks(columns) ==
    \E i \in 1..Len(columns) : "\"" \in Range(columns[i])

\* create_stg_table: a durable table with the raw table's data columns and
\* the two provenance columns, no rows (CREATE TABLE IF NOT EXISTS, commit)
create_stg_table(stgdb, rawt, stg_table_name) ==
    [n \in DOMAIN stgdb \cup {stg_table_name} |->
        IF n \in DOMAIN stgdb THEN stgdb[n]
        ELSE [cols |-> DataColumns(rawt), rows |-> <<>>]]

\* PRAGMA table_info of a durable table
StgTableColumns(t) == t.cols \o <<COL_STG_LOADED_AT, COL_STG_SOURCE_TABLE>>

\* get_key_columns: the configured key of the base name; <<>> stands for
\* None (an empty list in the file is as falsy as None)
get_key_columns(base_name, keys_config) ==
    IF base_name \in DOMAIN keys_config THEN keys_config[base_name] ELSE <<>>

\* the cell of a durable row under a column name (SQL resolves the name
\* without regard to case)
StgCell(t, r, column) ==
    r.data[CHOOSE i \in 1..Len(t.cols) : Lower(t.cols[i]) = Lower(column)]

\* the comparison a = b of SQL as a WHERE clause sees it: a NULL operand
\* makes it unknown, which does not select
SqlEq(a, b) == a # NULL /\ b # NULL /\ a = b

\* the comparison a IS b: NULL IS NULL holds
SqlIs(a, b) == a = b

\* WHERE NOT EXISTS (SELECT 1 FROM stg WHERE stg.k = raw.k AND ...): cand is
\* the candidate's cells under data_columns
KeyAbsent(stgt, key_columns, data_columns, cand) ==
    ~\E i \in 1..Len(stgt.rows) :
        \A k \in 1..Len(key_columns) :
            SqlEq(StgCell(stgt, stgt.rows[i], key_columns[k]),
                  cand[CHOOSE j \in 1..Len(data_columns) :
                          data_columns[j] = key_columns[k]])

\* WHERE NOT EXISTS (SELECT 1 FROM stg WHERE stg.c IS raw.c AND ...)
RowAbsent(stgt, data_columns, cand) ==
    ~\E i \in 1..Len(stgt.rows) :
        \A j \in 1..Len(data_columns) :
            SqlIs(StgCell(stgt, stgt.rows[i], data_columns[j]), cand[j])

\* SELECT DISTINCT: the first occurrence of every row, NULLs comparing equal
RECURSIVE Distinct(_)
Distinct(rows) ==
    IF rows = <<>> THEN <<>>
    ELSE LET prev == Distinct(SubSeq(rows, 1, Len(rows) - 1))
             last == rows[Len(rows)]
         IN  IF last \in Range(prev) THEN prev ELSE Append(prev, last)

\* the statement of move_data_to_stg cannot be prepared: the unkeyed text
\* names raw."col" although its FROM clause gives the table no alias raw
\* (it resolves only for a table that is itself called raw), the column
\* list is empty or not quotable, or the durable table lacks a column, or
\* a key column is no column of the two tables
MoveRaises(stgt, raw_table_name, key_columns, data_columns) ==
    \/ key_columns = <<>> /\ Lower(raw_table_name) # <<"r","a","w">>
    \/ \E k \in Range(key_columns) :
          Lower(k) \notin {Lower(c) : c \in Range(data_columns)}
    \/ data_columns = <<>>
    \/ QuotingBreaks(data_columns)
    \/ \E j \in 1..Len(data_columns) :
          Lower(data_columns[j]) \notin {Lower(c) : c \in Range(stgt.cols)}

\* the rows the INSERT ... SELECT DISTINCT ... WHERE NOT EXISTS adds: the
\* SELECT reads the durable table, so SQLite runs it to completion against
\* the durable rows of before the statement and inserts its result after
Admitted(rawt, stgt, key_columns, data_columns) ==
    LET cands == [i \in 1..Len(rawt.rows) |-> Project(rawt, data_columns, rawt.rows[i])]
        New(c) == IF key_columns # <<>>
                  THEN KeyAbsent(stgt, key_columns, data_columns, c)
                  ELSE RowAbsent(stgt, data_columns, c)
    IN  Distinct(SelectSeq(cands, New))

\* a statement that rewrites the durable table with the admitted rows in
\* place of appending them
move_data_to_stg_Replace(rawt, stgt, raw_table_name, key_columns, data_columns, now) ==
    LET add  == Admitted(rawt, stgt, key_columns, data_columns)
        rows == [k \in 1..Len(add) |->
                   [data |-> [j \in 1..Len(stgt.cols) |->
                                 add[k][CHOOSE i \in 1..Len(data_columns) :
                                          Lower(data_columns[i]) = Lower(stgt.cols[j])]],
                    stg_loaded_at |-> now,
                    stg_source_table |-> raw_table_name]]
        after == [stgt EXCEPT !.rows = rows]
    IN  [table |-> after,
         rows_inserted |-> Len(rows),
         stg_before |-> get_row_count(stgt),
         stg_after |-> get_row_count(after)]

\* move_data_to_stg: the durable table after the statement and the stats
move_data_to_stg(rawt, stgt, raw_table_name, key_columns, data_columns, now) ==
    LET add  == Admitted(rawt, stgt, key_columns, data_columns)
        rows == [k \in 1..Len(add) |->
                   [data |-> [j \in 1..Len(stgt.cols) |->
                                 add[k][CHOOSE i \in 1..Len(data_columns) :
                                          Lower(data_columns[i]) = Lower(stgt.cols[j])]],
                    stg_loaded_at |-> now,
                    stg_source_table |-> raw_table_name]]
        after == [stgt EXCEPT !.rows = @ \o rows]
    IN  [table |-> after,
         rows_inserted |-> get_row_count(after) - get_row_count(stgt),
         stg_before |-> get_row_count(stgt),
         stg_after |-> get_row_count(after)]

\* a key check that finds every key column present, whatever the columns
MissingKeys_None(key_columns, data_columns) == {}

\* missing_keys = [k for k in key_columns if k not in data_columns]
MissingKeys(key_columns, data_columns) ==
    {k \in Range(key_columns) : k \notin Range(data_columns)}

\* process_single_table(conn, raw_table_name, configs, log_entries): the
\* durable tables after the call, the result dict, the log entries appended
\* and whether an exception left the function (raised = TRUE)
process_single_table(rawdb, stgdb, raw_table_name, keys_config, now) ==
    LET stg_table_name == raw_to_stg_name(raw_table_name)
        base_name      == get_base_table_name(raw_table_name)
        rawt           == rawdb[raw_table_name]
        stg_exists     == table_exists(stgdb, stg_table_name)
        data_columns   == DataColumns(rawt)
        stgdb1         == IF stg_exists THEN stgdb
                          ELSE create_stg_table(stgdb, rawt, stg_table_name)
        key_columns    == get_key_columns(base_name, keys_config)
        missing_keys   == MissingKeys(key_columns, data_columns)
        res(db, ok, n, msg, lg, exc) ==
            [stg |-> db,
             result |-> [raw_table |-> raw_table_name, stg_table |-> stg_table_name,
                         success |-> ok, rows_inserted |-> n, message |-> msg,
                         missing_keys |-> IF msg = "Key columns not found"
                                          THEN missing_keys ELSE {}],
             log |-> lg, raised |-> exc]
        stats          == move_data_to_stg(rawt, stgdb1[stg_table_name], raw_table_name,
                                           key_columns, data_columns, now)
    IN  IF get_row_count(rawt) = 0
        THEN res(stgdb, FALSE, 0, "Raw table is empty", <<>>, FALSE)
        ELSE IF ~stg_exists /\ QuotingBreaks(data_columns)
        THEN res(stgdb, FALSE, 0, "uncaught", <<>>, TRUE)
        ELSE IF key_columns # <<>> /\ missing_keys # {}
        THEN res(stgdb1, FALSE, 0, "Key columns not found", <<>>, FALSE)
        ELSE IF MoveRaises(stgdb1[stg_table_name], raw_table_name, key_columns, data_columns)
        THEN res(stgdb1, FALSE, 0, "sqlite3 error", <<>>, FALSE)
        ELSE res([stgdb1 EXCEPT ![stg_table_name] = stats.table],
                 TRUE, stats.rows_inserted, "Success",
                 <<[operation |-> "raw_to_stg", table_name |-> stg_table_name,
                    rows_affected |-> stats.rows_inserted, status |-> "success",
                    message |-> raw_table_name,
                    started_at |-> now, completed_at |-> now]>>,
                 FALSE)

(***************************************************************************)
(* Inputs: the configuration and the source files that can be delivered    *)
(***************************************************************************)
Str_id == <<"i","d">>

Str_nm == <<"n","m">>

Str_zz == <<"z","z">>

Str_tx == <<"t","x">>

Str_ab == <<"a","\"","b">>

Str_ux == <<"_","x">>

Str_Cust == <<"C","u","s","t">>

Str_AccountProducts == <<"A","c","c","o","u","n","t","P","r","o","d","u","c","t","s">>

Str_Branches == <<"B","r","a","n","c","h","e","s">>

Str_Employees == <<"E","m","p","l","o","y","e","e","s">>

Str_Loans == <<"L","o","a","n","s">>

Csv == <<".","c","s","v">>

Day1 == <<"_","2","0","2","6","0","1","0","1">>

Day2 == <<"_","2","0","2","6","0","1","0","2">>

Day3 == <<"_","2","0","2","6","0","1","0","3">>

Day4 == <<"_","2","0","2","6","0","1","0","4">>

Day5 == <<"_","2","0","2","6","0","1","0","5">>

Day6 == <<"_","2","0","2","6","0","1","0","6">>

\* load_configs: table_keys_config.json declares the key id of Cust and of
\* the entities the reports read; the import settings are the defaults the
\* code falls back to; broken holds the configuration files ("database",
\* "csv", "keys") that are missing or are no JSON
InputConfigs ==
    {[keys |-> [e \in {Str_Cust, Str_AccountProducts, Str_Branches, Str_Employees,
                       Str_Loans} |-> <<Str_id>>],
      settings |-> [encoding_attempts |-> <<"utf-8", "latin-1", "cp1252">>,
                    trim_whitespace |-> TRUE,
                    skip_empty_rows |-> TRUE],
      broken |-> {}]}

SourceFile(name, header, rows) ==
    [filename |-> name, header |-> header, rows |-> rows,
     decodes |-> {"utf-8", "latin-1", "cp1252"}, parses |-> TRUE]

\* batches of the keyed entity cust (columns id, nm)
FileCustA ==
    SourceFile(<<"c","u","s","t">> \o Day1 \o Csv, <<Str_id, Str_nm>>,
               <<<<"C1", "Ann">>, <<"C2", "Bea">>>>)

FileCustB ==
    SourceFile(<<"c","u","s","t">> \o Day2 \o Csv, <<Str_id, Str_nm>>,
               <<<<"C2", "Bea">>, <<"C3", "Cid">>>>)

\* one key twice, with different non-key cells
FileCustD ==
    SourceFile(<<"c","u","s","t">> \o Day3 \o Csv, <<Str_id, Str_nm>>,
               <<<<"C1", "Ann">>, <<"C1", "Zed">>>>)

\* an empty cell in the key column
FileCustN ==
    SourceFile(<<"c","u","s","t">> \o Day4 \o Csv, <<Str_id, Str_nm>>,
               <<<<NULL, "Ann">>>>)

\* the rows of FileCustA under another file name and date
FileCustA2 ==
    SourceFile(<<"c","u","s","t">> \o Day6 \o Csv, <<Str_id, Str_nm>>,
               <<<<"C1", "Ann">>, <<"C2", "Bea">>>>)

\* a batch of cust without the key column
FileCustK ==
    SourceFile(<<"c","u","s","t">> \o Day5 \o Csv, <<Str_nm>>, <<<<"Kim">>>>)

\* a batch of cust whose header differs from the table's
FileCustM ==
    SourceFile(<<"c","u","s","t">> \o Day5 \o Csv, <<Str_id, Str_zz>>,
               <<<<"C9", "Moe">>>>)

\* a batch of cust that lacks a column of the table
FileCustS ==
    SourceFile(<<"c","u","s","t">> \o Day2 \o Csv, <<Str_id>>, <<<<"C7">>>>)

\* batches of the entity note, for which no key is declared
FileNoteA ==
    SourceFile(<<"n","o","t","e">> \o Day1 \o Csv, <<Str_tx>>, <<<<"hi">>>>)

\* a header field that holds a double quote
FileBad ==
    SourceFile(<<"b","a","d">> \o Day1 \o Csv, <<Str_ab>>, <<<<"v">>>>)

\* a header field that starts with an underscore
FileUnd ==
    SourceFile(<<"u","n","d">> \o Day1 \o Csv, <<Str_ux, Str_nm>>,
               <<<<"u", "w">>>>)

\* the deliveries of the reconciliation study: batches of the keyed entity
KeyedDrops ==
    {{FileCustA}, {FileCustB}, {FileCustD}, {FileCustN}, {FileCustA2}, {FileCustK}}

\* the deliveries of the intake study: a matching and a mismatching batch
\* of cust, an unkeyed entity, and the two unusual headers
IntakeDrops ==
    {{FileCustA, FileCustM}, {FileCustS}, {FileNoteA}, {FileBad, FileCustA},
     {FileUnd}}

\* a file name with nothing but separators before its date
FileBlank ==
    SourceFile(<<"_">> \o Day1 \o Csv, <<Str_nm>>, <<<<"Bo">>>>)

\* a batch of cust in a file without a date
FileCustU ==
    SourceFile(<<"c","u","s","t">> \o Csv, <<Str_id, Str_nm>>,
               <<<<"C1", "Ann">>, <<"C4", "Dov">>>>)

\* the deliveries of the file name study: dated and undated files of one
\* entity, and the name without an entity
NameDrops ==
    {{FileBlank}, {FileCustU}, {FileCustA}, {FileCustB, FileCustU}}

\* a file with bytes that are no UTF-8 (an accented letter in Latin-1)
FileLatin ==
    [SourceFile(<<"c","a","f","e">> \o Day1 \o Csv, <<Str_nm>>, <<<<"Zoe">>>>)
        EXCEPT !.decodes = {"latin-1", "cp1252"}]

\* a file whose lines do not have the same number of fields
FileRagged ==
    [SourceFile(<<"r","a","g">> \o Day1 \o Csv, <<Str_nm>>, <<<<"x">>>>)
        EXCEPT !.parses = FALSE]

\* the deliveries of the configuration study
ConfigDrops == {{FileLatin}, {FileCustA}, {FileRagged}}

\* the configurations of the configuration study: the shipped one, one
\* whose encoding_attempts names a codec Python does not know, and one for
\* each configuration file that is missing or is no JSON
ConfigCases ==
    LET shipped == CHOOSE c \in InputConfigs : TRUE
    IN  {shipped,
         [shipped EXCEPT !.settings.encoding_attempts = <<"utf-8", "utf-8-bom", "latin-1">>]}
        \cup {[shipped EXCEPT !.broken = {file}] : file \in {"database", "csv", "keys"}}

\* the number of script runs a behaviour may hold
MaxClock == 4

\* the number of script runs a behaviour of the study of repeated runs may
\* hold: the three steps of the pipeline, twice
MaxRuns == 6

(***************************************************************************)
(* stg_to_rpt.py                                                           *)
(***************************************************************************)
\* the names of the durable tables the aggregates read
stgCustomerProfiles == <<"s","t","g","C","u","s","t","o","m","e","r","P","r","o","f","i","l","e","s">>

stgAccountProducts == <<"s","t","g","A","c","c","o","u","n","t","P","r","o","d","u","c","t","s">>

stgLoans == <<"s","t","g","L","o","a","n","s">>

stgPendingTransactions == <<"s","t","g","P","e","n","d","i","n","g","T","r","a","n","s","a","c","t","i","o","n","s">>

stgFailedTransactions == <<"s","t","g","F","a","i","l","e","d","T","r","a","n","s","a","c","t","i","o","n","s">>

stgBranches == <<"s","t","g","B","r","a","n","c","h","e","s">>

stgEmployees == <<"s","t","g","E","m","p","l","o","y","e","e","s">>

stgAtmLocations == <<"s","t","g","A","t","m","L","o","c","a","t","i","o","n","s">>

stgCreditCards == <<"s","t","g","C","r","e","d","i","t","C","a","r","d","s">>

stgInvestments == <<"s","t","g","I","n","v","e","s","t","m","e","n","t","s">>

\* the columns the aggregate queries name
Str_status == <<"s","t","a","t","u","s">>

Str_balance == <<"b","a","l","a","n","c","e">>

Str_principal == <<"p","r","i","n","c","i","p","a","l">>

Str_amount == <<"a","m","o","u","n","t">>

Str_credit_limit == <<"c","r","e","d","i","t","_","l","i","m","i","t">>

Str_current_value == <<"c","u","r","r","e","n","t","_","v","a","l","u","e">>

Str_segment == <<"s","e","g","m","e","n","t">>

Str_risk_rating == <<"r","i","s","k","_","r","a","t","i","n","g">>

Str_account_type == <<"a","c","c","o","u","n","t","_","t","y","p","e">>

Str_currency == <<"c","u","r","r","e","n","c","y">>

Str_transaction_type == <<"t","r","a","n","s","a","c","t","i","o","n","_","t","y","p","e">>

Str_loan_type == <<"l","o","a","n","_","t","y","p","e">>

Str_interest_rate == <<"i","n","t","e","r","e","s","t","_","r","a","t","e">>

Str_outstanding == <<"o","u","t","s","t","a","n","d","i","n","g">>

Str_branch_id == <<"b","r","a","n","c","h","_","i","d">>

Str_branch_name == <<"b","r","a","n","c","h","_","n","a","m","e">>

Str_city == <<"c","i","t","y">>

Str_state == <<"s","t","a","t","e">>

\* the durable tables the aggregates read
AggregateSources ==
    {<<"s","t","g">> \o base_name_to_table_name(b) :
        b \in {<<"c","u","s","t","o","m","e","r","_","p","r","o","f","i","l","e","s">>,
               <<"a","c","c","o","u","n","t","_","p","r","o","d","u","c","t","s">>,
               <<"l","o","a","n","s">>,
               <<"p","e","n","d","i","n","g","_","t","r","a","n","s","a","c","t","i","o","n","s">>,
               <<"f","a","i","l","e","d","_","t","r","a","n","s","a","c","t","i","o","n","s">>,
               <<"b","r","a","n","c","h","e","s">>,
               <<"e","m","p","l","o","y","e","e","s">>,
               <<"a","t","m","_","l","o","c","a","t","i","o","n","s">>,
               <<"c","r","e","d","i","t","_","c","a","r","d","s">>,
               <<"i","n","v","e","s","t","m","e","n","t","s">>}}

\* DATE(_imported_at): the day a second falls in
DateOf(t) == t \div 86400

\* create_daily_metrics: one row per raw table and import day
create_daily_metrics(rawdb, now) ==
    LET Days(n) == {DateOf(rawdb[n].rows[i].imported_at) : i \in 1..Len(rawdb[n].rows)}
        Count(n, d) == Cardinality({i \in 1..Len(rawdb[n].rows) :
                                      DateOf(rawdb[n].rows[i].imported_at) = d})
    IN  UNION {{[metric_date |-> d,
                 metric_name |-> <<"i","m","p","o","r","t","e","d","_">> \o n,
                 metric_value |-> Count(n, d),
                 updated_at |-> now] : d \in Days(n)} :
               n \in {m \in DOMAIN rawdb : StartsWith(Lower(m), <<"r","a","w">>)}}

\* COALESCE(v, d)
Coalesce(v, d) == IF v = NULL THEN d ELSE v

\* the number SUM, AVG, MIN and MAX take a cell for: a cell of one digit is
\* that integer, any other text counts as 0
NumberOf(cell) ==
    IF \E i \in 1..Len(Digits) : Digits[i] = cell
    THEN (CHOOSE i \in 1..Len(Digits) : Digits[i] = cell) - 1
    ELSE 0

\* every name of cols resolves to a column of the durable table t (SQL
\* resolves names without regard to case); a query naming any other column
\* raises sqlite3.OperationalError: no such column
HasColumns(t, cols) ==
    \A c \in cols : Lower(c) \in {Lower(x) : x \in Range(StgTableColumns(t))}

\* an aggregate that takes the NULL cells for values
NonNull_All(t, c, I) == I

\* the rows of I whose cell under column c is not NULL
NonNull(t, c, I) == {i \in I : StgCell(t, t.rows[i], c) # NULL}

RECURSIVE SumCells(_, _, _)
SumCells(t, c, I) ==
    IF I = {} THEN 0
    ELSE LET i == CHOOSE x \in I : TRUE
         IN  NumberOf(StgCell(t, t.rows[i], c)) + SumCells(t, c, I \ {i})

\* COALESCE(SUM(c), 0) over the rows I
CoalesceSum(t, c, I) == SumCells(t, c, NonNull(t, c, I))

\* COALESCE(AVG(c), 0) over the rows I, as the fraction num/den
CoalesceAvg(t, c, I) ==
    IF NonNull(t, c, I) = {} THEN [num |-> 0, den |-> 1]
    ELSE [num |-> SumCells(t, c, NonNull(t, c, I)),
          den |-> Cardinality(NonNull(t, c, I))]

\* COALESCE(MIN(c), 0) and COALESCE(MAX(c), 0) over the rows I
CoalesceMin(t, c, I) ==
    IF NonNull(t, c, I) = {} THEN 0
    ELSE CHOOSE m \in {NumberOf(StgCell(t, t.rows[i], c)) : i \in NonNull(t, c, I)} :
            \A i \in NonNull(t, c, I) : m <= NumberOf(StgCell(t, t.rows[i], c))

CoalesceMax(t, c, I) ==
    IF NonNull(t, c, I) = {} THEN 0
    ELSE CHOOSE m \in {NumberOf(StgCell(t, t.rows[i], c)) : i \in NonNull(t, c, I)} :
            \A i \in NonNull(t, c, I) : m >= NumberOf(StgCell(t, t.rows[i], c))

\* the cells of the i-th row of t under the columns cols
GroupKey(t, cols, i) == [k \in 1..Len(cols) |-> StgCell(t, t.rows[i], cols[k])]

\* GROUP BY cols: the groups are the distinct values of the columns
\* themselves (NULL being one value), not of the COALESCE expressions that
\* the select list gives the same names
Groups(t, cols) == {GroupKey(t, cols, i) : i \in 1..Len(t.rows)}

\* the rows of one group
Members(t, cols, g) == {i \in 1..Len(t.rows) : GroupKey(t, cols, i) = g}

\* the rows of a report table: one row Row(g) for every g of G, rows with
\* the same cells being kept as often as they occur
RowsOf(G, Row(_)) ==
    [r \in {Row(g) : g \in G} |-> Cardinality({g \in G : Row(g) = r})]

\* a report table is the bag of its rows; the report tables with table name
\* holding rows, and without table name
PutTable(tables, name, rows) == (name :> rows) @@ tables

DropTable(tables, name) == [n \in DOMAIN tables \ {name} |-> tables[n]]

\* what a report generator leaves: the report tables, the row count it
\* returns, and whether an exception left it
Built(tables, count) == [tables |-> tables, count |-> count, raised |-> FALSE]

Failed(tables) == [tables |-> tables, count |-> 0, raised |-> TRUE]

\* a KPI row; kpi_value is a REAL column, held as the fraction num/den
Kpi(name, num, den, format, category, now) ==
    [kpi_name |-> name, kpi_value |-> [num |-> num, den |-> den],
     kpi_format |-> format, kpi_category |-> category, updated_at |-> now]

\* the rows of a durable table, all of them
AllRows(t) == 1..Len(t.rows)

\* create_kpi_summary: DROP and CREATE (committed at once), then the KPIs of
\* the durable tables that exist, inserted after all of them are computed
create_kpi_summary(stgdb, tables, now) ==
    LET has(n) == table_exists(stgdb, n)
        needs == [n \in AggregateSources |->
                    IF n = stgCustomerProfiles THEN {Str_status}
                    ELSE IF n = stgAccountProducts THEN {Str_balance}
                    ELSE IF n = stgLoans THEN {Str_principal, Str_status}
                    ELSE IF n = stgPendingTransactions THEN {Str_amount}
                    ELSE IF n = stgCreditCards THEN {Str_credit_limit}
                    ELSE IF n = stgInvestments THEN {Str_current_value}
                    ELSE {}]
        count(n) == get_row_count(stgdb[n])
        active(n) == Cardinality({i \in AllRows(stgdb[n]) :
                        StgCell(stgdb[n], stgdb[n].rows[i], Str_status) \in {"active", NULL}})
        sum(n, c) == CoalesceSum(stgdb[n], c, AllRows(stgdb[n]))
        avg(n, c) == CoalesceAvg(stgdb[n], c, AllRows(stgdb[n]))
        kpis ==
            (IF has(stgCustomerProfiles)
             THEN {Kpi("total_customers", count(stgCustomerProfiles), 1, "number", "customer", now),
                   Kpi("active_customers", active(stgCustomerProfiles), 1, "number", "customer", now)}
             ELSE {})
            \cup
            (IF has(stgAccountProducts)
             THEN {Kpi("total_accounts", count(stgAccountProducts), 1, "number", "account", now),
                   Kpi("total_balance", sum(stgAccountProducts, Str_balance), 1,
                       "currency", "account", now),
                   Kpi("avg_account_balance", avg(stgAccountProducts, Str_balance).num,
                       avg(stgAccountProducts, Str_balance).den, "currency", "account", now)}
             ELSE {})
            \cup
            (IF has(stgLoans)
             THEN {Kpi("total_loans", count(stgLoans), 1, "number", "loan", now),
                   Kpi("total_loan_amount", sum(stgLoans, Str_principal), 1,
                       "currency", "loan", now),
                   Kpi("active_loans", active(stgLoans), 1, "number", "loan", now)}
             ELSE {})
            \cup
            (IF has(stgPendingTransactions)
             THEN {Kpi("pending_transactions", count(stgPendingTransactions), 1,
                       "number", "transaction", now),
                   Kpi("pending_amount", sum(stgPendingTransactions, Str_amount), 1,
                       "currency", "transaction", now)}
             ELSE {})
            \cup
            (IF has(stgFailedTransactions)
             THEN {Kpi("failed_transactions", count(stgFailedTransactions), 1,
                       "number", "transaction", now)}
             ELSE {})
            \cup
            (IF has(stgBranches)
             THEN {Kpi("total_branches", count(stgBranches), 1, "number", "operations", now)}
             ELSE {})
            \cup
            (IF has(stgEmployees)
             THEN {Kpi("total_employees", count(stgEmployees), 1, "number", "operations", now)}
             ELSE {})
            \cup
            (IF has(stgAtmLocations)
             THEN {Kpi("total_atms", count(stgAtmLocations), 1, "number", "operations", now)}
             ELSE {})
            \cup
            (IF has(stgCreditCards)
             THEN {Kpi("total_credit_cards", count(stgCreditCards), 1, "number", "products", now),
                   Kpi("total_credit_limit", sum(stgCreditCards, Str_credit_limit), 1,
                       "currency", "products", now)}
             ELSE {})
            \cup
            (IF has(stgInvestments)
             THEN {Kpi("total_investments", count(stgInvestments), 1, "number", "products", now),
                   Kpi("total_investment_value", sum(stgInvestments, Str_current_value), 1,
                       "currency", "products", now)}
             ELSE {})
    IN  IF \E n \in AggregateSources : has(n) /\ ~HasColumns(stgdb[n], needs[n])
        THEN Failed(PutTable(tables, "rptDashboardKPIs", EmptyBag))
        ELSE Built(PutTable(tables, "rptDashboardKPIs", SetToBag(kpis)), Cardinality(kpis))

\* create_customer_summary: skipped without stgCustomerProfiles, else DROP
\* and CREATE TABLE AS SELECT ... GROUP BY segment, risk_rating, status
create_customer_summary(stgdb, tables, now) ==
    LET t    == stgdb[stgCustomerProfiles]
        cols == <<Str_segment, Str_risk_rating, Str_status>>
        Row(g) == [segment |-> Coalesce(g[1], "Unknown"),
                   risk_rating |-> Coalesce(g[2], "Unknown"),
                   customer_count |-> Cardinality(Members(t, cols, g)),
                   status |-> Coalesce(g[3], "active"),
                   updated_at |-> now]
        rows == RowsOf(Groups(t, cols), Row)
    IN  IF ~table_exists(stgdb, stgCustomerProfiles) THEN Built(tables, 0)
        ELSE IF ~HasColumns(t, Range(cols))
        THEN Failed(DropTable(tables, "rptCustomerSummary"))
        ELSE Built(PutTable(tables, "rptCustomerSummary", rows), BagCardinality(rows))

\* create_account_summary: skipped without stgAccountProducts, else DROP and
\* CREATE TABLE AS SELECT ... GROUP BY account_type, currency, status
create_account_summary(stgdb, tables, now) ==
    LET t    == stgdb[stgAccountProducts]
        cols == <<Str_account_type, Str_currency, Str_status>>
        Row(g) == LET I == Members(t, cols, g)
                  IN  [account_type |-> Coalesce(g[1], "Unknown"),
                       currency |-> Coalesce(g[2], "USD"),
                       status |-> Coalesce(g[3], "active"),
                       account_count |-> Cardinality(I),
                       total_balance |-> CoalesceSum(t, Str_balance, I),
                       avg_balance |-> CoalesceAvg(t, Str_balance, I),
                       min_balance |-> CoalesceMin(t, Str_balance, I),
                       max_balance |-> CoalesceMax(t, Str_balance, I),
                       updated_at |-> now]
        rows == RowsOf(Groups(t, cols), Row)
    IN  IF ~table_exists(stgdb, stgAccountProducts) THEN Built(tables, 0)
        ELSE IF ~HasColumns(t, Range(cols) \cup {Str_balance})
        THEN Failed(DropTable(tables, "rptAccountSummary"))
        ELSE Built(PutTable(tables, "rptAccountSummary", rows), BagCardinality(rows))

\* create_transaction_summary: DROP and CREATE, then one INSERT ... SELECT
\* ... GROUP BY per transaction table that exists; an INSERT that raises
\* leaves the uncommitted rows of the one before it to be rolled back
create_transaction_summary(stgdb, tables, now) ==
    LET p     == stgdb[stgPendingTransactions]
        pcols == <<Str_transaction_type, Str_status>>
        PRow(g) == LET I == Members(p, pcols, g)
                   IN  [transaction_type |-> Coalesce(g[1], "Unknown"),
                        status |-> Coalesce(g[2], "pending"),
                        transaction_count |-> Cardinality(I),
                        total_amount |-> CoalesceSum(p, Str_amount, I),
                        avg_amount |-> CoalesceAvg(p, Str_amount, I),
                        source_table |-> "stgPendingTransactions",
                        updated_at |-> now]
        f     == stgdb[stgFailedTransactions]
        fcols == <<Str_transaction_type>>
        FRow(g) == LET I == Members(f, fcols, g)
                   IN  [transaction_type |-> Coalesce(g[1], "Unknown"),
                        status |-> "failed",
                        transaction_count |-> Cardinality(I),
                        total_amount |-> CoalesceSum(f, Str_amount, I),
                        avg_amount |-> CoalesceAvg(f, Str_amount, I),
                        source_table |-> "stgFailedTransactions",
                        updated_at |-> now]
        prows == IF table_exists(stgdb, stgPendingTransactions)
                 THEN RowsOf(Groups(p, pcols), PRow) ELSE EmptyBag
        frows == IF table_exists(stgdb, stgFailedTransactions)
                 THEN RowsOf(Groups(f, fcols), FRow) ELSE EmptyBag
    IN  IF \/ /\ table_exists(stgdb, stgPendingTransactions)
              /\ ~HasColumns(p, Range(pcols) \cup {Str_amount})
           \/ /\ table_exists(stgdb, stgFailedTransactions)
              /\ ~HasColumns(f, Range(fcols) \cup {Str_amount})
        THEN Failed(PutTable(tables, "rptTransactionSummary", EmptyBag))
        ELSE Built(PutTable(tables, "rptTransactionSummary", prows (+) frows),
                   BagCardinality(prows (+) frows))

\* create_loan_summary: skipped without stgLoans, else DROP and CREATE TABLE
\* AS SELECT ... GROUP BY loan_type, status
create_loan_summary(stgdb, tables, now) ==
    LET t    == stgdb[stgLoans]
        cols == <<Str_loan_type, Str_status>>
        Row(g) == LET I == Members(t, cols, g)
                  IN  [loan_type |-> Coalesce(g[1], "Unknown"),
                       status |-> Coalesce(g[2], "active"),
                       loan_count |-> Cardinality(I),
                       total_principal |-> CoalesceSum(t, Str_principal, I),
                       avg_principal |-> CoalesceAvg(t, Str_principal, I),
                       avg_interest_rate |-> CoalesceAvg(t, Str_interest_rate, I),
                       total_outstanding |-> CoalesceSum(t, Str_outstanding, I),
                       updated_at |-> now]
        rows == RowsOf(Groups(t, cols), Row)
    IN  IF ~table_exists(stgdb, stgLoans) THEN Built(tables, 0)
        ELSE IF ~HasColumns(t, Range(cols) \cup {Str_principal, Str_interest_rate,
                                                Str_outstanding})
        THEN Failed(DropTable(tables, "rptLoanSummary"))
        ELSE Built(PutTable(tables, "rptLoanSummary", rows), BagCardinality(rows))

\* SELECT COUNT(*) FROM child WHERE child.branch_id = <the branch's id>
LinkedCount(child, branch_id) ==
    Cardinality({i \in AllRows(child) :
                    SqlEq(StgCell(child, child.rows[i], Str_branch_id), branch_id)})

\* create_branch_summary: skipped without stgBranches, else DROP and CREATE
\* TABLE AS SELECT (committed at once) with the three counts 0, then the
\* UPDATE of employee_count when stgEmployees exists, and the UPDATE of
\* account_count when stgAccountProducts exists, the latter in a try block
create_branch_summary(stgdb, tables, now) ==
    LET b == stgdb[stgBranches]
        Row(i, employees, accounts) ==
            [branch_id |-> StgCell(b, b.rows[i], Str_branch_id),
             branch_name |-> StgCell(b, b.rows[i], Str_branch_name),
             city |-> StgCell(b, b.rows[i], Str_city),
             state |-> Coalesce(StgCell(b, b.rows[i], Str_state), ""),
             customer_count |-> 0,
             account_count |-> accounts,
             employee_count |-> employees,
             updated_at |-> now]
        Zero(i) == Row(i, 0, 0)
        Counted(i) ==
            Row(i,
                IF table_exists(stgdb, stgEmployees)
                THEN LinkedCount(stgdb[stgEmployees], StgCell(b, b.rows[i], Str_branch_id))
                ELSE 0,
                IF /\ table_exists(stgdb, stgAccountProducts)
                   /\ HasColumns(stgdb[stgAccountProducts], {Str_branch_id})
                THEN LinkedCount(stgdb[stgAccountProducts],
                                 StgCell(b, b.rows[i], Str_branch_id))
                ELSE 0)
    IN  IF ~table_exists(stgdb, stgBranches) THEN Built(tables, 0)
        ELSE IF ~HasColumns(b, {Str_branch_id, Str_branch_name, Str_city, Str_state})
        THEN Failed(DropTable(tables, "rptBranchSummary"))
        ELSE IF /\ table_exists(stgdb, stgEmployees)
                /\ ~HasColumns(stgdb[stgEmployees], {Str_branch_id})
        THEN Failed(PutTable(tables, "rptBranchSummary", RowsOf(AllRows(b), Zero)))
        ELSE Built(PutTable(tables, "rptBranchSummary", RowsOf(AllRows(b), Counted)),
                   get_row_count(b))

\* the results dict of a run that did not get to fill it
NoResults ==
    [returned |-> FALSE, kpis |-> 0, customer |-> 0, account |-> 0, transaction |-> 0,
     loan |-> 0, branch |-> 0, daily |-> 0]

\* the report table each generator of main drops and builds, in the order
\* main calls them, and the key of its count in the results dict
GeneratedTables ==
    <<"rptDashboardKPIs", "rptCustomerSummary", "rptAccountSummary",
      "rptTransactionSummary", "rptLoanSummary", "rptBranchSummary">>

ResultKeys == <<"kpis", "customer", "account", "transaction", "loan", "branch">>

\* the generator calls of main, each given the report tables as main found
\* them: a generator reads the stg tables and touches no report table but
\* its own, so it leaves its table as it does when called in turn
GeneratorCalls(stgdb, tables, now) ==
    <<create_kpi_summary(stgdb, tables, now),
      create_customer_summary(stgdb, tables, now),
      create_account_summary(stgdb, tables, now),
      create_transaction_summary(stgdb, tables, now),
      create_loan_summary(stgdb, tables, now),
      create_branch_summary(stgdb, tables, now)>>

\* the calls in their order, none of them in a try block: the generators up
\* to the first that raises have run, the tables of the others are as they
\* were; create_daily_metrics is called last and the counts are returned
\* only when no generator raised
RunGenerators(tables, calls, metrics) ==
    LET raised   == {i \in 1..Len(calls) : calls[i].raised}
        ran      == {i \in 1..Len(calls) : \A j \in raised : i <= j}
        own(i)   == GeneratedTables[i]
        kept     == {n \in DOMAIN tables : \A i \in ran : n # own(i)}
        left     == {own(i) : i \in {j \in ran : own(j) \in DOMAIN calls[j].tables}}
        daily    == IF raised = {} THEN {"rptDailyMetrics"} ELSE {}
        table(n) == IF n \in daily THEN SetToBag(metrics)
                    ELSE IF n \in left
                         THEN calls[CHOOSE i \in ran : own(i) = n].tables[n]
                         ELSE tables[n]
    IN  [tables  |-> [n \in (kept \ daily) \cup left \cup daily |-> table(n)],
         raised  |-> raised # {},
         results |-> IF raised # {} THEN NoResults
                     ELSE [k \in DOMAIN NoResults |->
                              IF k = "returned" THEN TRUE
                              ELSE IF k = "daily" THEN Cardinality(metrics)
                              ELSE calls[CHOOSE i \in 1..Len(calls) : ResultKeys[i] = k].count]]

\* stg_to_rpt.main from "Create all report tables" on
stg_to_rpt_main(stgdb, rawdb, tables, now) ==
    RunGenerators(tables, GeneratorCalls(stgdb, tables, now),
                  create_daily_metrics(rawdb, now))

(***************************************************************************)
(* Inputs of the report step                                               *)
(***************************************************************************)
\* account_products: three checking and two savings accounts
FileAcctA ==
    SourceFile(<<"a","c","c","o","u","n","t","_","p","r","o","d","u","c","t","s">>
                 \o Day1 \o Csv,
               <<Str_id, Str_account_type, Str_currency, Str_status, Str_balance>>,
               <<<<"A1", "checking", "USD", "active", "1">>,
                 <<"A2", "checking", "USD", "active", "2">>,
                 <<"A3", "checking", "USD", "active", "3">>,
                 <<"A4", "savings", "USD", "active", "4">>,
                 <<"A5", "savings", "USD", "active", "5">>>>)

\* one more checking account
FileAcctB ==
    SourceFile(<<"a","c","c","o","u","n","t","_","p","r","o","d","u","c","t","s">>
                 \o Day2 \o Csv,
               <<Str_id, Str_account_type, Str_currency, Str_status, Str_balance>>,
               <<<<"A6", "checking", "USD", "active", "6">>>>)

\* an account with an empty account_type and one whose account_type is the
\* text Unknown
FileAcctN ==
    SourceFile(<<"a","c","c","o","u","n","t","_","p","r","o","d","u","c","t","s">>
                 \o Day3 \o Csv,
               <<Str_id, Str_account_type, Str_currency, Str_status, Str_balance>>,
               <<<<"A7", NULL, "USD", "active", "1">>,
                 <<"A8", "Unknown", "USD", "active", "2">>>>)

FileBranch ==
    SourceFile(<<"b","r","a","n","c","h","e","s">> \o Day1 \o Csv,
               <<Str_id, Str_branch_id, Str_branch_name, Str_city, Str_state>>,
               <<<<"R1", "B1", "Main", "Rome", NULL>>>>)

\* employees with the linking column branch_id
FileEmpl ==
    SourceFile(<<"e","m","p","l","o","y","e","e","s">> \o Day1 \o Csv,
               <<Str_id, Str_branch_id>>,
               <<<<"E1", "B1">>, <<"E2", "B1">>>>)

\* employees without the linking column
FileEmplX ==
    SourceFile(<<"e","m","p","l","o","y","e","e","s">> \o Day2 \o Csv,
               <<Str_id, Str_nm>>, <<<<"E1", "Eve">>>>)

\* loans without the columns principal and status
FileLoanX ==
    SourceFile(<<"l","o","a","n","s">> \o Day1 \o Csv,
               <<Str_id, Str_loan_type>>, <<<<"L1", "car">>>>)

\* accounts with an empty balance: one next to an account of its group
\* that has a balance, one alone in its group
FileAcctZ ==
    SourceFile(<<"a","c","c","o","u","n","t","_","p","r","o","d","u","c","t","s">>
                 \o Day4 \o Csv,
               <<Str_id, Str_account_type, Str_currency, Str_status, Str_balance>>,
               <<<<"Z1", "checking", "USD", "active", "3">>,
                 <<"Z2", "checking", "USD", "active", NULL>>,
                 <<"Z3", "savings", "USD", "active", NULL>>>>)

\* the deliveries of the report study: accounts, accounts whose type is
\* empty or Unknown, branches with employees that have and that lack the
\* linking column, and loans that lack columns next to accounts
ReportDrops ==
    {{FileAcctA}, {FileAcctN}, {FileBranch, FileEmpl}, {FileBranch, FileEmplX},
     {FileLoanX, FileAcctA}}

\* the deliveries of the study of empty cells in measured columns
NullDrops == {{FileAcctZ}, {FileAcctB}}

\* the deliveries of the study of repeated runs: one batch of accounts
RerunDrops == {{FileAcctB}}

(***************************************************************************)
(* State                                                                   *)
(***************************************************************************)
VARIABLES
    inputs,          \* the folder contents the environment can deliver
    configs,         \* the loaded configuration files
    folder,          \* the source files in data/incoming
    raw,             \* raw table name -> raw table
    stg,             \* stg table name -> durable table
    rpt,             \* the report tables and the last_report_refresh stamp
    etl_log,         \* the rows of _etl_log
    clock,           \* datetime.now(), in seconds
    pc,              \* the script that is running, or "idle"
    queue,           \* what the running script's loop has still to process
    log_entries,     \* the running script's log_entries list
    import_results,  \* the results list of the last csv_importer run
    stg_results,     \* the results list of the last raw_to_stg run
    proc,            \* the last script process that ended
    rpt_results,     \* the results dict of the last stg_to_rpt run
    pipe,            \* the step run_pipeline is at, 0 when it is not running
    pipe_out         \* what the last run_pipeline printed at its end

vars == <<inputs, configs, folder, raw, stg, rpt, etl_log, clock, pc, queue, log_entries,
          import_results, stg_results, proc, rpt_results, pipe, pipe_out>>

\* database_creator has run: the store holds _etl_log and no data yet
InitTables ==
    /\ folder = {}
    /\ raw = <<>>
    /\ stg = <<>>
    /\ rpt = [tables |-> <<>>, last_report_refresh |-> 0]
    /\ etl_log = <<>>
    /\ clock = 0
    /\ pc = "idle"
    /\ queue = <<>>
    /\ log_entries = <<>>
    /\ import_results = <<>>
    /\ stg_results = <<>>
    /\ proc = [script |-> "none", returned |-> "none", exit_code |-> 0]
    /\ rpt_results = NoResults
    /\ pipe = 0
    /\ pipe_out = "none"

\* the store as created, with the configuration files as they are shipped
InitStore == configs \in InputConfigs /\ InitTables

\* the number of script runs a behaviour holds at most
LastRun == IF inputs = RerunDrops THEN MaxRuns ELSE MaxClock

\* load_configs raises in a script that opens these configuration files;
\* main prints the error and returns False, and the process exits with 0
ConfigError(files) == configs.broken \cap files # {}

\* the number of results with success = FALSE
FailedCount(results) == Cardinality({i \in 1..Len(results) : ~results[i].success})

\* run_step: a step that exits 0 lets main go on to the next step (or print
\* PIPELINE COMPLETE after the third), any other exit code stops the run
AfterStep(step, exit_code) ==
    IF pipe # step THEN pipe' = pipe /\ pipe_out' = pipe_out
    ELSE IF exit_code # 0 THEN pipe' = 0 /\ pipe_out' = "PIPELINE STOPPED"
    ELSE IF step = 3 THEN pipe' = 0 /\ pipe_out' = "PIPELINE COMPLETE"
    ELSE pipe' = step + 1 /\ pipe_out' = pipe_out

(***************************************************************************)
(* Actions                                                                 *)
(***************************************************************************)
\* run_pipeline.main starts
PipelineStart ==
    /\ pc = "idle" /\ pipe = 0
    /\ clock + 3 <= LastRun
    /\ pipe' = 1
    /\ pipe_out' = "running"
    /\ UNCHANGED <<rpt_results, inputs, configs, folder, raw, stg, rpt, etl_log, clock, pc, queue,
                   log_entries, import_results, stg_results, proc>>

\* csv_importer.main up to the loop of process_csv_folder: the folder is
\* as the environment left it (files delivered or taken away since the last
\* run), and sorted(glob(...)) lists it
CsvImporterStart ==
    /\ pc = "idle" /\ pipe \in {0, 1}
    /\ clock < LastRun
    /\ clock' = clock + 1
    /\ log_entries' = <<>>
    /\ import_results' = <<>>
    /\ IF ConfigError({"database", "csv"})
       THEN /\ proc' = [script |-> "csv_importer", returned |-> "False", exit_code |-> 0]
            /\ AfterStep(1, 0)
            /\ UNCHANGED <<pc, folder, queue>>
       ELSE /\ pc' = "csv_importer"
            /\ \E fs \in inputs \cup {folder} :
                  /\ folder' = fs
                  /\ queue' = LET names == SortedNames({f.filename : f \in fs})
                              IN  [i \in 1..Len(names) |->
                                     CHOOSE f \in fs : f.filename = names[i]]
            /\ UNCHANGED <<proc, pipe, pipe_out>>
    /\ UNCHANGED <<rpt_results, inputs, configs, raw, stg, rpt, etl_log, stg_results>>

\* one iteration of the loop of process_csv_folder
CsvImporterStep ==
    /\ pc = "csv_importer" /\ queue # <<>>
    /\ LET r == import_single_csv(raw, Head(queue), configs.settings, clock)
       IN  /\ raw' = r.raw
           /\ import_results' = Append(import_results, r.result)
           /\ log_entries' = log_entries \o r.log
    /\ queue' = Tail(queue)
    /\ UNCHANGED <<rpt_results, inputs, configs, folder, stg, rpt, etl_log, clock, pc, stg_results, proc,
                   pipe, pipe_out>>

\* process_csv_folder writes the log entries; main prints the summary, may
\* move the files to the archive and returns; the process exits with 0
CsvImporterFinish ==
    /\ pc = "csv_importer" /\ queue = <<>>
    /\ etl_log' = etl_log \o log_entries
    /\ log_entries' = <<>>
    /\ IF FailedCount(import_results) < Len(import_results)
       THEN \E answer \in {"yes", "no"} :
               folder' = IF answer = "yes" THEN {} ELSE folder
       ELSE folder' = folder
    /\ proc' = [script |-> "csv_importer",
                returned |-> IF FailedCount(import_results) = 0 THEN "True" ELSE "False",
                exit_code |-> 0]
    /\ pc' = "idle"
    /\ AfterStep(1, 0)
    /\ UNCHANGED <<rpt_results, inputs, configs, raw, stg, rpt, clock, queue, import_results, stg_results>>

\* raw_to_stg.main up to its loop; with a configuration it cannot load, or
\* without raw tables, it returns False
RawToStgStart ==
    /\ pc = "idle" /\ pipe \in {0, 2}
    /\ clock < LastRun
    /\ clock' = clock + 1
    /\ log_entries' = <<>>
    /\ stg_results' = <<>>
    /\ LET raw_tables == get_all_raw_tables(raw)
       IN  IF ConfigError({"database", "keys"}) \/ raw_tables = <<>>
           THEN /\ proc' = [script |-> "raw_to_stg", returned |-> "False", exit_code |-> 0]
                /\ AfterStep(2, 0)
                /\ UNCHANGED <<pc, queue>>
           ELSE /\ pc' = "raw_to_stg"
                /\ queue' = raw_tables
                /\ UNCHANGED <<proc, pipe, pipe_out>>
    /\ UNCHANGED <<rpt_results, inputs, configs, folder, raw, stg, rpt, etl_log, import_results>>

\* one iteration of the loop of raw_to_stg.main; an exception that leaves
\* process_single_table ends the process (exit code 1) before the log
\* entries are written
RawToStgStep ==
    /\ pc = "raw_to_stg" /\ queue # <<>>
    /\ LET r == process_single_table(raw, stg, Head(queue), configs.keys, clock)
       IN  IF r.raised
           THEN /\ pc' = "idle"
                /\ queue' = <<>>
                /\ log_entries' = <<>>
                /\ proc' = [script |-> "raw_to_stg", returned |-> "raised", exit_code |-> 1]
                /\ AfterStep(2, 1)
                /\ UNCHANGED <<stg, stg_results>>
           ELSE /\ stg' = r.stg
                /\ stg_results' = Append(stg_results, r.result)
                /\ log_entries' = log_entries \o r.log
                /\ queue' = Tail(queue)
                /\ UNCHANGED <<pc, proc, pipe, pipe_out>>
    /\ UNCHANGED <<rpt_results, inputs, configs, folder, raw, rpt, etl_log, clock, import_results>>

\* raw_to_stg.main after the loop: the log entries are written, the summary
\* is printed, main returns; the process exits with 0
RawToStgFinish ==
    /\ pc = "raw_to_stg" /\ queue = <<>>
    /\ etl_log' = etl_log \o log_entries
    /\ log_entries' = <<>>
    /\ proc' = [script |-> "raw_to_stg",
                returned |-> IF FailedCount(stg_results) = 0 THEN "True" ELSE "False",
                exit_code |-> 0]
    /\ pc' = "idle"
    /\ AfterStep(2, 0)
    /\ UNCHANGED <<rpt_results, inputs, configs, folder, raw, stg, rpt, clock, queue, import_results,
                   stg_results>>

\* stg_to_rpt.main: the report tables are rebuilt from the store; a run that
\* returns stamps last_report_refresh, a run that a generator's exception
\* ends exits with code 1; with a configuration it cannot load main returns
\* False before it opens the store
StgToRptMain ==
    /\ pc = "idle" /\ pipe \in {0, 3}
    /\ clock < LastRun
    /\ clock' = clock + 1
    /\ IF ConfigError({"database"})
       THEN /\ proc' = [script |-> "stg_to_rpt", returned |-> "False", exit_code |-> 0]
            /\ AfterStep(3, 0)
            /\ UNCHANGED <<rpt, rpt_results>>
       ELSE LET out == stg_to_rpt_main(stg, raw, rpt.tables, clock')
            IN  /\ rpt' = [tables |-> out.tables,
                           last_report_refresh |->
                               IF out.raised THEN rpt.last_report_refresh ELSE clock']
                /\ rpt_results' = out.results
                /\ proc' = [script |-> "stg_to_rpt",
                            returned |-> IF out.raised THEN "raised" ELSE "True",
                            exit_code |-> IF out.raised THEN 1 ELSE 0]
                /\ AfterStep(3, IF out.raised THEN 1 ELSE 0)
    /\ UNCHANGED <<inputs, configs, folder, raw, stg, etl_log, pc, queue, log_entries,
                   import_results, stg_results>>

Next ==
    \/ PipelineStart
    \/ CsvImporterStart
    \/ CsvImporterStep
    \/ CsvImporterFinish
    \/ RawToStgStart
    \/ RawToStgStep
    \/ RawToStgFinish
    \/ StgToRptMain

Init == inputs = IntakeDrops /\ InitStore

Spec == Init /\ [][Next]_vars

InitKeyed == inputs = KeyedDrops /\ InitStore

SpecKeyed == InitKeyed /\ [][Next]_vars

InitReport == inputs = ReportDrops /\ InitStore

SpecReport == InitReport /\ [][Next]_vars

InitNames == inputs = NameDrops /\ InitStore

SpecNames == InitNames /\ [][Next]_vars

InitConfig == inputs = ConfigDrops /\ configs \in ConfigCases /\ InitTables

SpecConfig == InitConfig /\ [][Next]_vars

InitNulls == inputs = NullDrops /\ InitStore

SpecNulls == InitNulls /\ [][Next]_vars

InitRerun == inputs = RerunDrops /\ InitStore

SpecRerun == InitRerun /\ [][Next]_vars

(***************************************************************************)
(* Vocabulary of the properties                                            *)
(***************************************************************************)
\* the declared key of a raw table's entity, <<>> when none is declared
KeyOf(raw_table_name) ==
    get_key_columns(get_base_table_name(raw_table_name), configs.keys)

\* the entity of the raw table declares a key and the table has its columns
Keyed(raw_table_name) ==
    /\ KeyOf(raw_table_name) # <<>>
    /\ Range(KeyOf(raw_table_name)) \subseteq Range(DataColumns(raw[raw_table_name]))

\* the key cells of a durable row and of a raw row
StgKey(t, r, key_columns) ==
    [k \in 1..Len(key_columns) |-> StgCell(t, r, key_columns[k])]

RawKey(t, r, key_columns) == Project(t, key_columns, r)

\* two keys agree: every cell has a value and the values are equal
KeysAgree(a, b) == \A k \in 1..Len(a) : SqlEq(a[k], b[k])

\* the reconcile loop is about to process the raw table at the head of the queue
AtReconcile == pc = "raw_to_stg" /\ queue # <<>>

\* the import loop is about to process the file at the head of the queue
AtImport == pc = "csv_importer" /\ queue # <<>>

(***************************************************************************)
(* C1                                                                      *)
(***************************************************************************)
\* C1: a durable table of an entity with declared key K never holds two
\* distinct rows that agree on every column of K.
C1_NoDuplicateKeys ==
    \A n \in DOMAIN raw :
        (Keyed(n) /\ raw_to_stg_name(n) \in DOMAIN stg) =>
            LET t == stg[raw_to_stg_name(n)]
            IN  \A i, j \in 1..Len(t.rows) :
                    i # j => ~KeysAgree(StgKey(t, t.rows[i], KeyOf(n)),
                                        StgKey(t, t.rows[j], KeyOf(n)))

(***************************************************************************)
(* C2                                                                      *)
(***************************************************************************)
\* C2: a reconcile run that directly follows a completed reconcile run (no
\* import in between) admits no row into the durable table of a keyed
\* entity: the table is unchanged and rows_inserted is 0.
C2_Idempotent ==
    [][(/\ AtReconcile
        /\ proc.script = "raw_to_stg" /\ proc.exit_code = 0
        /\ Keyed(Head(queue)))
       => (/\ stg' = stg
           /\ Len(stg_results') = Len(stg_results) + 1
           /\ stg_results'[Len(stg_results')].rows_inserted = 0)]_vars

(***************************************************************************)
(* C3                                                                      *)
(***************************************************************************)
\* the number of durable rows whose cells are those of the raw row r
Copies(n, r) ==
    LET t  == stg[raw_to_stg_name(n)]
        dc == DataColumns(raw[n])
    IN  Cardinality({j \in 1..Len(t.rows) :
                        \A c \in 1..Len(dc) :
                            SqlIs(StgCell(t, t.rows[j], dc[c]),
                                  Project(raw[n], dc, r)[c])})

\* C3: every reconcile of an entity without declared key succeeds and leaves
\* exactly one durable copy of each intake row (full-row identity, NULL
\* matching NULL), however many batches submitted that row.
C3_FullRowOnce ==
    pc = "raw_to_stg" =>
        \A i \in 1..Len(stg_results) :
            LET n == stg_results[i].raw_table
            IN  KeyOf(n) = <<>> =>
                    /\ stg_results[i].success
                    /\ \A k \in 1..Len(raw[n].rows) : Copies(n, raw[n].rows[k]) = 1

(***************************************************************************)
(* C4                                                                      *)
(***************************************************************************)
\* two keys hold the same values (a NULL cell being the same as a NULL cell)
SameKey(a, b) == a = b

\* C4: when the durable table exists and the entity declares key K, a pass
\* admits exactly the intake rows whose key no durable row has: afterwards
\* every intake row's key is in the durable table, and no row was inserted
\* for a key the durable table already had before the pass.
C4_AdmitIffKeyAbsent ==
    [][(/\ AtReconcile
        /\ Keyed(Head(queue))
        /\ raw_to_stg_name(Head(queue)) \in DOMAIN stg)
       => LET n   == Head(queue)
              K   == KeyOf(n)
              old == stg[raw_to_stg_name(n)]
              new == stg'[raw_to_stg_name(n)]
          IN  /\ \A i \in 1..Len(raw[n].rows) :
                    \E j \in 1..Len(new.rows) :
                        SameKey(StgKey(new, new.rows[j], K),
                                RawKey(raw[n], raw[n].rows[i], K))
              /\ \A j \in (Len(old.rows) + 1)..Len(new.rows) :
                    ~\E i \in 1..Len(old.rows) :
                        SameKey(StgKey(old, old.rows[i], K),
                                StgKey(new, new.rows[j], K))]_vars

(***************************************************************************)
(* C5                                                                      *)
(***************************************************************************)
\* the keys of the raw table n that no row of its durable table has (all of
\* its keys when the durable table does not exist yet)
NewKeys(n) ==
    LET K    == KeyOf(n)
        have == IF raw_to_stg_name(n) \in DOMAIN stg
                THEN {StgKey(stg[raw_to_stg_name(n)], stg[raw_to_stg_name(n)].rows[j], K) :
                         j \in 1..Len(stg[raw_to_stg_name(n)].rows)}
                ELSE {}
    IN  {RawKey(raw[n], raw[n].rows[i], K) : i \in 1..Len(raw[n].rows)} \ have

\* C5: the admitted count a reconcile of a keyed entity reports is the
\* number of keys new to the durable table, and the reconcile appends one
\* audit entry with that count (batch {C1,C2} then batch {C2,C3} gives the
\* entries 2 and 1).
C5_AdmittedCountIsNewKeys ==
    [][(AtReconcile /\ Keyed(Head(queue)))
       => (/\ Len(stg_results') = Len(stg_results) + 1
           /\ stg_results'[Len(stg_results')].rows_inserted
                 = Cardinality(NewKeys(Head(queue)))
           /\ Len(log_entries') = Len(log_entries) + 1
           /\ log_entries'[Len(log_entries')].rows_affected
                 = Cardinality(NewKeys(Head(queue))))]_vars

(***************************************************************************)
(* C6                                                                      *)
(***************************************************************************)
\* C6: the first reconcile of an entity creates the durable table with the
\* intake table's non-metadata columns plus the two provenance columns and
\* admits every intake row: the durable row count is the intake row count.
C6_FirstReconcileAdmitsAll ==
    [][(AtReconcile /\ raw_to_stg_name(Head(queue)) \notin DOMAIN stg)
       => LET n == Head(queue)
          IN  /\ raw_to_stg_name(n) \in DOMAIN stg'
              /\ StgTableColumns(stg'[raw_to_stg_name(n)])
                    = DataColumns(raw[n]) \o <<COL_STG_LOADED_AT, COL_STG_SOURCE_TABLE>>
              /\ Len(stg'[raw_to_stg_name(n)].rows) = Len(raw[n].rows)]_vars

(***************************************************************************)
(* C7                                                                      *)
(***************************************************************************)
\* the incoming column set of a source file, compared without regard to case
IncomingSet(file) == {Lower(Strip(file.header[i])) : i \in 1..Len(file.header)}

\* the columns of a raw table other than the importer's own metadata
\* columns, compared without regard to case
DeclaredSet(t) == {Lower(c) : c \in Range(t.cols)}

\* the verdict import_single_csv reached for the file it has just processed
VerdictOf(result, existed) ==
    IF result.message = "Column mismatch" THEN "MISMATCH"
    ELSE IF existed THEN "MATCH"
    ELSE "CREATE"

\* C7: the verdict is CREATE iff the entity's table does not exist; otherwise
\* MATCH iff the incoming column set equals the table's non-metadata column
\* set, and otherwise MISMATCH with exactly the missing and the extra
\* columns; a header identical to the creating batch's header gets MATCH.
C7_Verdict ==
    [][AtImport
       => LET f       == Head(queue)
              n       == RawTableName(f.filename)
              existed == n \in DOMAIN raw
              result  == import_results'[Len(import_results')]
              verdict == VerdictOf(result, existed)
          IN  /\ (verdict = "CREATE") <=> ~existed
              /\ existed =>
                    /\ (verdict = "MATCH") <=> (IncomingSet(f) = DeclaredSet(raw[n]))
                    /\ verdict = "MISMATCH" =>
                          /\ result.missing = DeclaredSet(raw[n]) \ IncomingSet(f)
                          /\ result.extra = IncomingSet(f) \ DeclaredSet(raw[n])]_vars

(***************************************************************************)
(* C8                                                                      *)
(***************************************************************************)
\* the compatibility check rejects the file: its table exists and the
\* incoming column set is not the set of the table's columns that do not
\* start with an underscore
VerdictMismatch(file) ==
    LET n == RawTableName(file.filename)
    IN  /\ n \in DOMAIN raw
        /\ IncomingSet(file)
              # {c \in {Lower(x) : x \in Range(get_table_columns(raw[n]))} :
                    ~StartsWith(c, <<"_">>)}

\* C8: a batch whose verdict is MISMATCH is rejected whole: the result has
\* success = False and rows_imported = 0, and the intake tables, the durable
\* tables, the audit log and the pending log entries are as before.
C8_MismatchRejectedWhole ==
    [][(AtImport /\ VerdictMismatch(Head(queue)))
       => (/\ raw' = raw
           /\ stg' = stg
           /\ rpt' = rpt
           /\ etl_log' = etl_log
           /\ log_entries' = log_entries
           /\ ~import_results'[Len(import_results')].success
           /\ import_results'[Len(import_results')].rows_imported = 0)]_vars

\* a mismatching batch has just been rejected while its table holds rows
C8_Witness ==
    /\ pc = "csv_importer"
    /\ import_results # <<>>
    /\ LET result == import_results[Len(import_results)]
       IN  /\ result.message = "Column mismatch"
           /\ result.table_name \in DOMAIN raw
           /\ raw[result.table_name].rows # <<>>
           /\ \A i \in 1..Len(raw[result.table_name].rows) :
                 raw[result.table_name].rows[i].source_file # result.filename

(***************************************************************************)
(* C9                                                                      *)
(***************************************************************************)
\* C9: a failing batch never keeps the rest of the run from being processed:
\* when the import run ends every file of the folder has its result, and
\* when the reconcile run ends every raw table has its result.
C9_EveryBatchProcessed ==
    [][/\ (pc = "csv_importer" /\ pc' = "idle")
          => {import_results'[i].filename : i \in 1..Len(import_results')}
                = {f.filename : f \in folder}
       /\ (pc = "raw_to_stg" /\ pc' = "idle")
          => {stg_results'[i].raw_table : i \in 1..Len(stg_results')}
                = Range(get_all_raw_tables(raw))]_vars

(***************************************************************************)
(* C10                                                                     *)
(***************************************************************************)
\* C10: run_pipeline never ends with PIPELINE COMPLETE after a run whose
\* intake step had a failed batch.
C10_CompleteOnlyIfNoBatchFailed ==
    [][(pipe = 3 /\ pipe_out' = "PIPELINE COMPLETE")
       => FailedCount(import_results) = 0]_vars

(***************************************************************************)
(* C11                                                                     *)
(***************************************************************************)
\* the entries a step appended to _etl_log
AddedLog == SubSeq(etl_log', Len(etl_log) + 1, Len(etl_log'))

\* every failed result of results has an appended entry that carries a
\* failure status for its table
FailuresLogged(results) ==
    \A i \in 1..Len(results) :
        ~results[i].success =>
            \E j \in 1..Len(AddedLog) : AddedLog[j].status # "success"

\* C11: every batch outcome is recorded in _etl_log: when an import run or a
\* reconcile run writes its log, it adds one entry per batch it processed,
\* and every failed batch has an entry with a failure status.
C11_EveryOutcomeLogged ==
    [][/\ CsvImporterFinish =>
              /\ Len(AddedLog) = Len(import_results)
              /\ FailuresLogged(import_results)
       /\ RawToStgFinish =>
              /\ Len(AddedLog) = Len(stg_results)
              /\ FailuresLogged(stg_results)]_vars

(***************************************************************************)
(* C12                                                                     *)
(***************************************************************************)
\* the number of rows of the durable table t that show, under the columns
\* cols with their defaults, the values the report row r has in fields
DisplayedCount(t, cols, defaults, fields, r) ==
    Cardinality({i \in AllRows(t) :
                    \A k \in 1..Len(cols) :
                        Coalesce(StgCell(t, t.rows[i], cols[k]), defaults[k]) = r[fields[k]]})

\* the rows R of a report table built by this rebuild are consistent with
\* the durable table t: none occurs twice, no two show the same group
\* values, and each one's count is the number of durable rows it shows
GroupedConsistent(tbl, R, t, cols, defaults, fields, count_field) ==
    \A r \in R :
        r.updated_at = clock' =>
            /\ tbl[r] = 1
            /\ \A q \in R : (\A k \in 1..Len(fields) : q[fields[k]] = r[fields[k]]) => q = r
            /\ r[count_field] = DisplayedCount(t, cols, defaults, fields, r)

\* the check of one grouped report table, when it and its source exist
GroupedTableConsistent(name, src, cols, defaults, fields, count_field) ==
    (name \in DOMAIN rpt'.tables /\ src \in DOMAIN stg) =>
        GroupedConsistent(rpt'.tables[name], DOMAIN rpt'.tables[name], stg[src],
                          cols, defaults, fields, count_field)

\* C12: right after a rebuild, every row of a grouped report table has as
\* its count the number of durable rows that show its group values, and no
\* two rows of one table show the same group values.
C12_AggregateConsistent ==
    [][StgToRptMain =>
          /\ GroupedTableConsistent("rptAccountSummary", stgAccountProducts,
                 <<Str_account_type, Str_currency, Str_status>>,
                 <<"Unknown", "USD", "active">>,
                 <<"account_type", "currency", "status">>, "account_count")
          /\ GroupedTableConsistent("rptCustomerSummary", stgCustomerProfiles,
                 <<Str_segment, Str_risk_rating, Str_status>>,
                 <<"Unknown", "Unknown", "active">>,
                 <<"segment", "risk_rating", "status">>, "customer_count")
          /\ GroupedTableConsistent("rptLoanSummary", stgLoans,
                 <<Str_loan_type, Str_status>>, <<"Unknown", "active">>,
                 <<"loan_type", "status">>, "loan_count")
          /\ ("rptTransactionSummary" \in DOMAIN rpt'.tables
                 /\ stgPendingTransactions \in DOMAIN stg) =>
                GroupedConsistent(rpt'.tables["rptTransactionSummary"],
                    {r \in DOMAIN rpt'.tables["rptTransactionSummary"] :
                        r.source_table = "stgPendingTransactions"},
                    stg[stgPendingTransactions],
                    <<Str_transaction_type, Str_status>>, <<"Unknown", "pending">>,
                    <<"transaction_type", "status">>, "transaction_count")]_vars

(***************************************************************************)
(* C13                                                                     *)
(***************************************************************************)
\* C13: after a rebuild the report tables hold only rows of that rebuild:
\* every row of every report table carries the stamp of the rebuild that
\* has just run, so that no row of an earlier build survives.
C13_NoStaleRows ==
    [][StgToRptMain =>
          \A n \in DOMAIN rpt'.tables :
              \A r \in DOMAIN rpt'.tables[n] : r.updated_at = clock']_vars

(***************************************************************************)
(* C14                                                                     *)
(***************************************************************************)
\* C14: the report tables a rebuild leaves are a function of the durable
\* tables alone: they are the tables the same rebuild leaves in a store
\* with the same durable tables, no raw tables and no earlier report tables.
C14_PureFunctionOfDurable ==
    [][StgToRptMain =>
          rpt'.tables = stg_to_rpt_main(stg, <<>>, <<>>, clock').tables]_vars

(***************************************************************************)
(* C15                                                                     *)
(***************************************************************************)
\* the report tables that are skipped without their source table, with the
\* source and the key of the results dict
Skippable ==
    {<<"rptCustomerSummary", stgCustomerProfiles, "customer">>,
     <<"rptAccountSummary", stgAccountProducts, "account">>,
     <<"rptLoanSummary", stgLoans, "loan">>,
     <<"rptBranchSummary", stgBranches, "branch">>}

\* the report table has been rebuilt by the step: it exists and its rows
\* carry the step's stamp
Rebuilt(name) ==
    /\ name \in DOMAIN rpt'.tables
    /\ \A r \in DOMAIN rpt'.tables[name] : r.updated_at = clock'

\* C15: whatever durable tables are present, a rebuild returns; an
\* aggregate whose source table is missing is skipped and reported with 0
\* rows, and every aggregate whose source exists is rebuilt in that run.
C15_MissingSourceSkipped ==
    [][StgToRptMain =>
          /\ rpt_results'.returned
          /\ \A a \in Skippable :
                IF a[2] \in DOMAIN stg THEN Rebuilt(a[1])
                ELSE /\ rpt_results'[a[3]] = 0
                     /\ a[1] \notin DOMAIN rpt'.tables
          /\ Rebuilt("rptDashboardKPIs")
          /\ Rebuilt("rptTransactionSummary")
          /\ Rebuilt("rptDailyMetrics")]_vars

(***************************************************************************)
(* C16                                                                     *)
(***************************************************************************)
\* stgBranches exists with the columns the branch aggregate selects, and
\* the child table exists without a column branch_id
ChildWithoutLink(child) ==
    /\ stgBranches \in DOMAIN stg
    /\ HasColumns(stg[stgBranches], {Str_branch_id, Str_branch_name, Str_city, Str_state})
    /\ child \in DOMAIN stg
    /\ ~\E i \in 1..Len(stg[child].cols) : Lower(stg[child].cols[i]) = Str_branch_id

\* C16: when stgEmployees (stgAccountProducts) exists without the linking
\* column branch_id, the rebuild completes and rptBranchSummary shows
\* employee_count (account_count) 0 for every branch.
C16_MissingLinkCountsZero ==
    [][StgToRptMain =>
          /\ ChildWithoutLink(stgEmployees) =>
                /\ rpt_results'.returned
                /\ Rebuilt("rptBranchSummary")
                /\ \A r \in DOMAIN rpt'.tables["rptBranchSummary"] : r.employee_count = 0
          /\ (ChildWithoutLink(stgAccountProducts) /\ ~ChildWithoutLink(stgEmployees)) =>
                /\ rpt_results'.returned
                /\ Rebuilt("rptBranchSummary")
                /\ \A r \in DOMAIN rpt'.tables["rptBranchSummary"] : r.account_count = 0]_vars

(***************************************************************************)
(* C17                                                                     *)
(***************************************************************************)
\* what each generator, run on its own on the store, leaves for its table
OwnBuild ==
    [n \in {"rptDashboardKPIs", "rptCustomerSummary", "rptAccountSummary",
            "rptTransactionSummary", "rptLoanSummary", "rptBranchSummary"} |->
        IF n = "rptDashboardKPIs" THEN create_kpi_summary(stg, <<>>, clock')
        ELSE IF n = "rptCustomerSummary" THEN create_customer_summary(stg, <<>>, clock')
        ELSE IF n = "rptAccountSummary" THEN create_account_summary(stg, <<>>, clock')
        ELSE IF n = "rptTransactionSummary" THEN create_transaction_summary(stg, <<>>, clock')
        ELSE IF n = "rptLoanSummary" THEN create_loan_summary(stg, <<>>, clock')
        ELSE create_branch_summary(stg, <<>>, clock')]

\* C17: a rebuild returns its row counts even when a generator fails, and
\* every report table whose own generator does not fail is rebuilt by it.
C17_AggregateFailureScoped ==
    [][StgToRptMain =>
          /\ rpt_results'.returned
          /\ \A n \in DOMAIN OwnBuild :
                (~OwnBuild[n].raised /\ n \in DOMAIN OwnBuild[n].tables) =>
                    /\ n \in DOMAIN rpt'.tables
                    /\ rpt'.tables[n] = OwnBuild[n].tables[n]
          /\ Rebuilt("rptDailyMetrics")]_vars

(***************************************************************************)
(* C18                                                                     *)
(***************************************************************************)
\* the entity of the raw table declares a key of which a column is no
\* column of the raw table
KeyColumnAbsent(raw_table_name) ==
    /\ KeyOf(raw_table_name) # <<>>
    /\ \E k \in 1..Len(KeyOf(raw_table_name)) :
          \A i \in 1..Len(raw[raw_table_name].cols) :
              raw[raw_table_name].cols[i] # KeyOf(raw_table_name)[k]

C19_ProvenanceNamesBatch ==
    \A n \in DOMAIN raw :
        raw_to_stg_name(n) \in DOMAIN stg =>
            LET t == stg[raw_to_stg_name(n)]
            IN  \A j \in 1..Len(t.rows) :
                    \E i \in 1..Len(raw[n].rows) :
                        /\ Project(raw[n], t.cols, raw[n].rows[i]) = t.rows[j].data
                        /\ raw[n].rows[i].source_file = t.rows[j].stg_source_table

(***************************************************************************)
(* C20                                                                     *)
(***************************************************************************)
\* every row of the raw table has a durable row with the same data cells
AllRowsDurable(n) ==
    /\ raw_to_stg_name(n) \in DOMAIN stg
    /\ stg[raw_to_stg_name(n)].cols = DataColumns(raw[n])
    /\ \A i \in 1..Len(raw[n].rows) : Copies(n, raw[n].rows[i]) >= 1

\* C20: metadata takes no part in identity: a reconcile of a raw table
\* whose rows all have a durable row with the same data cells (the rows
\* were submitted again under another file name, date or import time)
\* admits no row.
C20_MetadataNotIdentity ==
    [][(AtReconcile /\ AllRowsDurable(Head(queue))) =>
          /\ stg' = stg
          /\ stg_results'[Len(stg_results')].rows_inserted = 0]_vars

(***************************************************************************)
(* C21                                                                     *)
(***************************************************************************)
\* C21: durable tables only grow: in every step of an import, a reconcile
\* or a rebuild every durable table stays, with its columns, and every row
\* it holds stays where it is with unchanged cells and stamps, so that its
\* row count never decreases.
C21_DurableOnlyGrows ==
    [][\A n \in DOMAIN stg :
          /\ n \in DOMAIN stg'
          /\ stg'[n].cols = stg[n].cols
          /\ Len(stg'[n].rows) >= Len(stg[n].rows)
          /\ \A i \in 1..Len(stg[n].rows) : stg'[n].rows[i] = stg[n].rows[i]]_vars

\* a durable table that has grown in two reconcile passes
C21_Witness ==
    \E n \in DOMAIN stg :
        \E i, j \in 1..Len(stg[n].rows) :
            stg[n].rows[i].stg_loaded_at < stg[n].rows[j].stg_loaded_at

(***************************************************************************)
(* C22                                                                     *)
(***************************************************************************)
\* the rows a step has put behind the rows a raw table held
AddedRows(n) ==
    IF n \in DOMAIN raw
    THEN SubSeq(raw'[n].rows, Len(raw[n].rows) + 1, Len(raw'[n].rows))
    ELSE raw'[n].rows

\* a raw table keeps its columns and its rows, in their places
RawKept(n) ==
    /\ n \in DOMAIN raw'
    /\ raw'[n].cols = raw[n].cols
    /\ Len(raw'[n].rows) >= Len(raw[n].rows)
    /\ SubSeq(raw'[n].rows, 1, Len(raw[n].rows)) = raw[n].rows

\* C22: the intake store is append-only: no step drops or rewrites a raw
\* row; a successful import of a file appends exactly the len(df) rows of
\* its frame, all of them carrying the file's name, to the one table of its
\* entity (a table is written afresh only when it did not exist); a failed
\* import and every other step leave the raw tables as they were.
C22_IntakeAppendOnly ==
    [][/\ \A n \in DOMAIN raw : RawKept(n)
       /\ IF pc = "csv_importer" /\ queue # <<>>
          THEN LET res == import_results'[Len(import_results')]
                   df  == read_csv_file(Head(queue), configs.settings)
               IN  IF res.success
                   THEN /\ res.rows_imported = Len(df.rows)
                        /\ DOMAIN raw' = DOMAIN raw \cup {res.table_name}
                        /\ Len(AddedRows(res.table_name)) = Len(df.rows)
                        /\ \A k \in 1..Len(df.rows) :
                              AddedRows(res.table_name)[k].source_file = Head(queue).filename
                        /\ \A n \in DOMAIN raw \ {res.table_name} : raw'[n] = raw[n]
                   ELSE raw' = raw
          ELSE raw' = raw]_vars

\* a raw table that holds the rows of one file twice, from two imports
C22_Witness ==
    \E n \in DOMAIN raw :
        \E i, j \in 1..Len(raw[n].rows) :
            /\ raw[n].rows[i].source_file = raw[n].rows[j].source_file
            /\ raw[n].rows[i].data = raw[n].rows[j].data
            /\ raw[n].rows[i].imported_at < raw[n].rows[j].imported_at

(***************************************************************************)
(* C23                                                                     *)
(***************************************************************************)
\* C23: the column set of a durable table, its provenance columns apart,
\* is fixed at creation: after every step it is the column set of the batch
\* that created the entity's raw table, it never changes, and a later batch
\* of the entity is applied with exactly that column set or leaves the raw
\* tables as they were.
C23_ColumnSetFixed ==
    [][/\ \A n \in DOMAIN raw' :
             raw_to_stg_name(n) \in DOMAIN stg'
                => Range(stg'[raw_to_stg_name(n)].cols) = Range(raw'[n].cols)
       /\ \A s \in DOMAIN stg : s \in DOMAIN stg' /\ stg'[s].cols = stg[s].cols
       /\ \A n \in DOMAIN raw : n \in DOMAIN raw' /\ raw'[n].cols = raw[n].cols
       /\ AtImport /\ RawTableName(Head(queue).filename) \in DOMAIN raw
             => IF import_results'[Len(import_results')].success
                THEN IncomingSet(Head(queue))
                        = DeclaredSet(raw[RawTableName(Head(queue).filename)])
                ELSE raw' = raw]_vars

(***************************************************************************)
(* C24                                                                     *)
(***************************************************************************)
\* the words of the name that are left once extension, date suffix and
\* separators are taken away
Tokens(filename) ==
    SelectSeq(Split(parse_filename(filename).base_name, "_"), LAMBDA w : w # <<>>)

\* C24: the entity of a file depends on its name alone: the name with and
\* without its _<8 digits> suffix resolves to the same table, a name with
\* no token left (such as __20260101.csv) is rejected as an invalid file
\* name with nothing written, and no raw table is ever named by the bare
\* prefix raw.
C24_EntityResolved ==
    [][/\ \A n \in DOMAIN raw' : Len(n) > Len(<<"r","a","w">>)
       /\ AtImport
             => LET f      == Head(queue)
                    result == import_results'[Len(import_results')]
                IN  /\ RawTableName(f.filename)
                          = RawTableName(parse_filename(f.filename).base_name \o Csv)
                    /\ Tokens(f.filename) = <<>>
                          => /\ ~result.success
                             /\ result.message = "Invalid filename format"
                             /\ raw' = raw]_vars

(***************************************************************************)
(* C30                                                                     *)
(***************************************************************************)
\* C30: a readable batch whose entity has no raw table yet (CREATE) or
\* whose column set is the table's (MATCH) is ingested in full: the import
\* reports success and appends a row for every row of the frame, whether
\* the file and the files before it carried a date suffix or not.
C30_CompatibleBatchIngested ==
    [][AtImport
       => LET f      == Head(queue)
              n      == RawTableName(f.filename)
              df     == read_csv_file(f, configs.settings)
              result == import_results'[Len(import_results')]
          IN  df.ok /\ (n \in DOMAIN raw => IncomingSet(f) = DeclaredSet(raw[n]))
                 => /\ result.success
                    /\ result.rows_imported = Len(df.rows)
                    /\ n \in DOMAIN raw'
                    /\ Len(raw'[n].rows)
                          = Len(df.rows) + (IF n \in DOMAIN raw THEN Len(raw[n].rows) ELSE 0)]_vars

(***************************************************************************)
(* C25                                                                     *)
(***************************************************************************)
\* the configured encodings under which the file can be decoded and parsed
Readable(file, encodings) ==
    {i \in 1..Len(encodings) : /\ encodings[i] \in Codecs
                               /\ encodings[i] \in file.decodes
                               /\ file.parses}

\* C25: the configured encodings are tried in list order and the first
\* under which the file parses wins: an import fails with a read error only
\* when the file parses under none of the configured encodings, and then it
\* writes nothing; a file that parses under one of them is read with the
\* first such encoding.
C25_EncodingFallback ==
    [][AtImport
       => LET f      == Head(queue)
              encs   == configs.settings.encoding_attempts
              ok     == Readable(f, encs)
              df     == read_csv_file(f, configs.settings)
              result == import_results'[Len(import_results')]
          IN  /\ result.message = "Error reading CSV" => ok = {} /\ raw' = raw
              /\ ok # {} => /\ df.ok
                            /\ df.encoding = encs[CHOOSE i \in ok : \A j \in ok : i <= j]]_vars

(***************************************************************************)
(* C26                                                                     *)
(***************************************************************************)
\* C26: a configuration file that is missing or malformed is fatal to the
\* whole run of run_pipeline: in every step of such a run no raw, durable
\* or report table and no log row is written, the run does not go on to a
\* later step, and it does not end with PIPELINE COMPLETE.
C26_ConfigErrorFatal ==
    [][pipe # 0 /\ configs.broken # {}
       => /\ raw' = raw /\ stg' = stg /\ rpt' = rpt /\ etl_log' = etl_log
          /\ pipe' \in {pipe, 0}
          /\ pipe_out' # "PIPELINE COMPLETE"]_vars

(***************************************************************************)
(* C29                                                                     *)
(***************************************************************************)
\* the reconcile of the raw table at the head of the queue has failed: an
\* exception ended the script, or the result says success = FALSE
ReconcileFailed ==
    \/ pc' = "idle"
    \/ /\ Len(stg_results') = Len(stg_results) + 1
       /\ ~stg_results'[Len(stg_results')].success

\* C29: a reconcile of an entity that fails (key columns missing, or the
\* insert statement raising) leaves the store as it was before the call: no
\* durable table is created or changed and no log entry is added for it.
C29_FailedReconcileNoEffect ==
    [][AtReconcile /\ ReconcileFailed
       => /\ stg' = stg
          /\ etl_log' = etl_log
          /\ log_entries' \in {log_entries, <<>>}]_vars

(***************************************************************************)
(* C28                                                                     *)
(***************************************************************************)
\* the cells under column c of the durable rows whose cells under cols are g
GroupCells(t, cols, g, c) ==
    LET rows == SelectSeq(t.rows,
                          LAMBDA r : \A k \in 1..Len(cols) : StgCell(t, r, cols[k]) = g[k])
    IN  [i \in 1..Len(rows) |-> StgCell(t, rows[i], c)]

\* the cells that hold a value
Measured(cells) == SelectSeq(cells, LAMBDA v : v # NULL)

RECURSIVE SeqSum(_)
SeqSum(cells) == IF cells = <<>> THEN 0 ELSE NumberOf(Head(cells)) + SeqSum(Tail(cells))

\* the average of the cells that hold a value, 0 when there is none
MeanOf(cells) ==
    IF Measured(cells) = <<>> THEN [num |-> 0, den |-> 1]
    ELSE [num |-> SeqSum(Measured(cells)), den |-> Len(Measured(cells))]

\* C28: aggregation is null-safe: right after a rebuild, the account
\* summary has for every group of durable accounts a row whose total is the
\* sum of the group's non-NULL balances (0 when it has none) and whose
\* average is taken over the non-NULL balances only, and the KPIs
\* total_balance and avg_account_balance are that sum and that average over
\* all accounts; a NULL balance makes no aggregate NULL.
C28_NullSafeAggregates ==
    [][StgToRptMain /\ stgAccountProducts \in DOMAIN stg /\ Rebuilt("rptAccountSummary")
       => LET t    == stg[stgAccountProducts]
              cols == <<Str_account_type, Str_currency, Str_status>>
              all  == GroupCells(t, <<>>, <<>>, Str_balance)
          IN  /\ \A i \in 1..Len(t.rows) :
                    LET g     == [k \in 1..3 |-> StgCell(t, t.rows[i], cols[k])]
                        cells == GroupCells(t, cols, g, Str_balance)
                    IN  \E r \in DOMAIN rpt'.tables["rptAccountSummary"] :
                           /\ r.account_type = Coalesce(g[1], "Unknown")
                           /\ r.account_count = Len(cells)
                           /\ r.total_balance = SeqSum(Measured(cells))
                           /\ r.avg_balance = MeanOf(cells)
              /\ \A r \in DOMAIN rpt'.tables["rptDashboardKPIs"] :
                    /\ r.kpi_name = "total_balance"
                          => r.kpi_value = [num |-> SeqSum(Measured(all)), den |-> 1]
                    /\ r.kpi_name = "avg_account_balance" => r.kpi_value = MeanOf(all)]_vars

\* a rebuilt account summary over a group with a NULL and a non-NULL
\* balance and a group with NULL balances only
C28_Witness ==
    /\ stgAccountProducts \in DOMAIN stg
    /\ \E i, j \in 1..Len(stg[stgAccountProducts].rows) :
          LET t == stg[stgAccountProducts]
          IN  /\ StgCell(t, t.rows[i], Str_balance) = NULL
              /\ StgCell(t, t.rows[j], Str_balance) # NULL
              /\ StgCell(t, t.rows[i], Str_account_type) = StgCell(t, t.rows[j], Str_account_type)
    /\ "rptAccountSummary" \in DOMAIN rpt.tables
    /\ \E r, q \in DOMAIN rpt.tables["rptAccountSummary"] :
          /\ r.account_count = 2 /\ r.total_balance = 3
          /\ r.avg_balance = [num |-> 3, den |-> 1]
          /\ q.account_count = 1 /\ q.total_balance = 0
          /\ q.avg_balance = [num |-> 0, den |-> 1]

(***************************************************************************)
(* C27                                                                     *)
(***************************************************************************)
\* the raw table n holds the rows of one drop twice: from an earlier import
\* and from the import at time t
ImportedTwice(n, t) ==
    LET rows == raw[n].rows
        h    == Len(rows) \div 2
    IN  /\ h > 0 /\ Len(rows) = 2 * h
        /\ \A k \in 1..h : /\ rows[k].data = rows[k + h].data
                           /\ rows[k].source_file = rows[k + h].source_file
                           /\ rows[k].imported_at < t
                           /\ rows[k + h].imported_at = t

\* a reconcile of n has succeeded between the first import and time t
ReconciledBefore(n, t) ==
    \E i \in 1..Len(etl_log) :
        /\ etl_log[i].operation = "raw_to_stg"
        /\ etl_log[i].table_name = raw_to_stg_name(n)
        /\ etl_log[i].started_at > raw[n].rows[1].imported_at
        /\ etl_log[i].started_at < t

\* the rows of the report tables with their numbers, the stamp of the
\* rebuild left out
ReportValues(r) ==
    [n \in DOMAIN r.tables |->
        {<<[x EXCEPT !.updated_at = 0], r.tables[n][x]>> : x \in DOMAIN r.tables[n]}]

\* C27: re-running the pipeline on a drop that has been imported,
\* reconciled and reported before, its files still in the folder, is safe:
\* the reconcile of the second run leaves every durable table as it was,
\* and its rebuild leaves every count and sum of the report tables as the
\* first run's rebuild computed them.
C27_RerunSafe ==
    [][/\ pipe = 2 /\ AtReconcile
             /\ ImportedTwice(Head(queue), clock - 1)
             /\ ReconciledBefore(Head(queue), clock - 1)
          => stg' = stg
       /\ pipe = 3 /\ pc = "idle" /\ clock' = clock + 1 /\ raw # <<>>
             /\ (\A n \in DOMAIN raw :
                    /\ ImportedTwice(n, clock - 1)
                    /\ ReconciledBefore(n, rpt.last_report_refresh))
             /\ rpt.last_report_refresh < clock - 1
          => ReportValues(rpt') = ReportValues(rpt)]_vars

====
